---- MODULE Spec2Model ----
(***************************************************************************)
(* SECS-II stream/function catalog of secsgem (secs/functions.py): the     *)
(* message type declarations, the (stream, function) dictionary            *)
(* secsStreamsFunctions, the catalog operations that read and extend it,   *)
(* and the encode and decode calls that work from its format descriptors.  *)
(***************************************************************************)
EXTENDS Integers, Sequences, FiniteSets, TLC

\* Range of the stream and function numbers that a header can carry.
MaxStream == 127
MaxFunction == 255

(***************************************************************************)
(* Python containers.                                                      *)
(***************************************************************************)

RECURSIVE DictItems(_, _)
\* the first n key/value pairs of a dict display, evaluated left to right
DictItems(pairs, n) ==
  IF n = 0
    THEN [k \in {} |-> k]
    ELSE (pairs[n][1] :> pairs[n][2]) @@ DictItems(pairs, n - 1)

\* dict built from key/value pairs: a key written twice keeps the last value
Dict(pairs) == DictItems(pairs, Len(pairs))

RECURSIVE OrderedItems(_, _)
\* the first n (name, value) pairs put into an OrderedDict one after another:
\* a new name is appended, a known name has its value replaced in place
OrderedItems(pairs, n) ==
  IF n = 0
    THEN <<>>
    ELSE LET before == OrderedItems(pairs, n - 1)
             known == {i \in DOMAIN before : before[i][1] = pairs[n][1]}
         IN IF known = {}
              THEN Append(before, pairs[n])
              ELSE [before EXCEPT ![CHOOSE i \in known : TRUE] = pairs[n]]

\* a plain dict in place of the OrderedDict: the names come back in an order
\* of their own, here last to first
OrderedDict_Plain(pairs) ==
  LET items == OrderedItems(pairs, Len(pairs))
  IN [i \in DOMAIN items |-> items[Len(items) + 1 - i]]

\* collections.OrderedDict built from a tuple of (name, value) pairs
OrderedDict(pairs) == OrderedItems(pairs, Len(pairs))

(***************************************************************************)
(* Format descriptors: the schema nodes the declarations are built from.   *)
(***************************************************************************)

\* a scalar constructed without a length argument
NoLength == -1

\* _formatDescriptor = None: header-only message
None == [kind |-> "None"]

SecsVarArray(item) == [kind |-> "Array", item |-> item]

SecsVarList(fields, count) == [kind |-> "List", fields |-> fields, count |-> count]

SecsVarDynamic(types) == [kind |-> "Dynamic", types |-> types]

SecsVarString(length) == [kind |-> "SecsVarString", length |-> length]

SecsVarBinary(length) == [kind |-> "SecsVarBinary", length |-> length]

SecsVarBoolean(length) == [kind |-> "SecsVarBoolean", length |-> length]

SecsVarU1(length) == [kind |-> "SecsVarU1", length |-> length]

SecsVarU2(length) == [kind |-> "SecsVarU2", length |-> length]

SecsVarU4(length) == [kind |-> "SecsVarU4", length |-> length]

SecsVarI2(length) == [kind |-> "SecsVarI2", length |-> length]

SecsVarI4(length) == [kind |-> "SecsVarI4", length |-> length]

\* the type lists the structure notation of the docstrings abbreviates
SignedTypes == <<"SecsVarI1", "SecsVarI2", "SecsVarI4", "SecsVarI8">>

UnsignedTypes == <<"SecsVarU1", "SecsVarU2", "SecsVarU4", "SecsVarU8">>

(***************************************************************************)
(* Data items (imported from dataitems), by the structure the docstrings   *)
(* of functions.py give for each of them, with the line of the docstring.  *)
(***************************************************************************)

dataitems ==
  [
   ACKC5 |->     \* B[1] (line 1462)
      SecsVarBinary(1),
   ALCD |->     \* B[1] (line 1416)
      SecsVarBinary(1),
   ALID |->     \* U*/I* (line 1417)
      SecsVarDynamic(UnsignedTypes \o SignedTypes),
   ALTX |->     \* A[120] (line 1418)
      SecsVarString(120),
   CEED |->     \* BOOL[1] (line 1172)
      SecsVarBoolean(1),
   CEID |->     \* A/I*/U* (line 1071)
      SecsVarDynamic(<<"SecsVarString">> \o SignedTypes \o UnsignedTypes),
   COMMACK |->     \* B[1] (line 396)
      SecsVarBinary(1),
   CPACK |->     \* B[1] (line 1328)
      SecsVarBinary(1),
   CPNAME |->     \* A/I*/U* (line 1261)
      SecsVarDynamic(<<"SecsVarString">> \o SignedTypes \o UnsignedTypes),
   CPVAL |->     \* B/BOOL/A/I*/U* (line 1262)
      SecsVarDynamic(<<"SecsVarBinary">> \o <<"SecsVarBoolean">> \o <<"SecsVarString">> \o SignedTypes \o UnsignedTypes),
   DATAID |->     \* A/I*/U* (line 958)
      SecsVarDynamic(<<"SecsVarString">> \o SignedTypes \o UnsignedTypes),
   DRACK |->     \* B[1] (line 1030)
      SecsVarBinary(1),
   EAC |->     \* B[1] (line 738)
      SecsVarBinary(1),
   ECDEF |->     \* any (line 892)
      SecsVarDynamic(<<>>),
   ECID |->     \* A/I*/U* (line 601)
      SecsVarDynamic(<<"SecsVarString">> \o SignedTypes \o UnsignedTypes),
   ECMAX |->     \* any (line 891)
      SecsVarDynamic(<<>>),
   ECMIN |->     \* any (line 890)
      SecsVarDynamic(<<>>),
   ECNAME |->     \* A (line 889)
      SecsVarString(NoLength),
   ECV |->     \* any (line 644)
      SecsVarDynamic(<<>>),
   ERACK |->     \* B[1] (line 1220)
      SecsVarBinary(1),
   HCACK |->     \* B[1] (line 1324)
      SecsVarBinary(1),
   LRACK |->     \* B[1] (line 1135)
      SecsVarBinary(1),
   OFLACK |->     \* B[1] (line 478)
      SecsVarBinary(1),
   ONLACK |->     \* B[1] (line 539)
      SecsVarBinary(1),
   RCMD |->     \* A/U1/I1 (line 1258)
      SecsVarDynamic(<<"SecsVarString">> \o <<"SecsVarU1">> \o <<"SecsVarI1">>),
   RPTID |->     \* A/I*/U* (line 961)
      SecsVarDynamic(<<"SecsVarString">> \o SignedTypes \o UnsignedTypes),
   SV |->     \* any (line 200)
      SecsVarDynamic(<<>>),
   SVID |->     \* A/I*/U* (line 158)
      SecsVarDynamic(<<"SecsVarString">> \o SignedTypes \o UnsignedTypes),
   SVNAME |->     \* A[n] (line 289)
      SecsVarString(NoLength),
   TIME |->     \* A[32] (line 803)
      SecsVarString(32),
   UNITS |->     \* A[n] (line 290)
      SecsVarString(NoLength),
   VID |->     \* A/I*/U* (line 963)
      SecsVarDynamic(<<"SecsVarString">> \o SignedTypes \o UnsignedTypes)
  ]

(***************************************************************************)
(* Message type declarations (class SecsSxxFyy(SecsStreamFunction)).       *)
(***************************************************************************)

\* S0F0 declared with the function number of the class after it
SecsS00F00_Function1 ==
  [name |-> "SecsS00F00",
   stream |-> 0,
   function |-> 1,
   formatDescriptor |-> None,
   toHost |-> TRUE,
   toEquipment |-> TRUE,
   hasReply |-> FALSE,
   isReplyRequired |-> FALSE,
   isMultiBlock |-> FALSE]

SecsS00F00 ==
  [name |-> "SecsS00F00",
   stream |-> 0,
   function |-> 0,
   formatDescriptor |->
      None,
   toHost |-> TRUE,
   toEquipment |-> TRUE,
   hasReply |-> FALSE,
   isReplyRequired |-> FALSE,
   isMultiBlock |-> FALSE]

SecsS01F00 ==
  [name |-> "SecsS01F00",
   stream |-> 1,
   function |-> 0,
   formatDescriptor |->
      None,
   toHost |-> TRUE,
   toEquipment |-> TRUE,
   hasReply |-> FALSE,
   isReplyRequired |-> FALSE,
   isMultiBlock |-> FALSE]

\* SecsS01F01 declared with the flags of a message without reply
SecsS01F01_NoReply ==
  [name |-> "SecsS01F01",
   stream |-> 1,
   function |-> 1,
   formatDescriptor |->
      None,
   toHost |-> TRUE,
   toEquipment |-> TRUE,
   hasReply |-> FALSE,
   isReplyRequired |-> FALSE,
   isMultiBlock |-> FALSE]

SecsS01F01 ==
  [name |-> "SecsS01F01",
   stream |-> 1,
   function |-> 1,
   formatDescriptor |->
      None,
   toHost |-> TRUE,
   toEquipment |-> TRUE,
   hasReply |-> TRUE,
   isReplyRequired |-> TRUE,
   isMultiBlock |-> FALSE]

SecsS01F02 ==
  [name |-> "SecsS01F02",
   stream |-> 1,
   function |-> 2,
   formatDescriptor |->
      SecsVarArray(SecsVarString(20)),
   toHost |-> TRUE,
   toEquipment |-> TRUE,
   hasReply |-> FALSE,
   isReplyRequired |-> FALSE,
   isMultiBlock |-> FALSE]

SecsS01F03 ==
  [name |-> "SecsS01F03",
   stream |-> 1,
   function |-> 3,
   formatDescriptor |->
      SecsVarArray(dataitems.SVID),
   toHost |-> FALSE,
   toEquipment |-> TRUE,
   hasReply |-> TRUE,
   isReplyRequired |-> TRUE,
   isMultiBlock |-> FALSE]

SecsS01F04 ==
  [name |-> "SecsS01F04",
   stream |-> 1,
   function |-> 4,
   formatDescriptor |->
      SecsVarArray(dataitems.SV),
   toHost |-> TRUE,
   toEquipment |-> FALSE,
   hasReply |-> FALSE,
   isReplyRequired |-> FALSE,
   isMultiBlock |-> TRUE]

SecsS01F11 ==
  [name |-> "SecsS01F11",
   stream |-> 1,
   function |-> 11,
   formatDescriptor |->
      SecsVarArray(dataitems.SVID),
   toHost |-> FALSE,
   toEquipment |-> TRUE,
   hasReply |-> TRUE,
   isReplyRequired |-> TRUE,
   isMultiBlock |-> FALSE]

\* S1F12 declared with an arity of 4 for its three fields
SecsS01F12_Arity4 ==
  [name |-> "SecsS01F12",
   stream |-> 1,
   function |-> 12,
   formatDescriptor |->
      SecsVarArray(SecsVarList(OrderedDict(<<
        <<"SVID", dataitems.SVID>>,
        <<"SVNAME", dataitems.SVNAME>>,
        <<"UNITS", dataitems.UNITS>>
      >>), 4)),
   toHost |-> TRUE,
   toEquipment |-> FALSE,
   hasReply |-> FALSE,
   isReplyRequired |-> FALSE,
   isMultiBlock |-> TRUE]

SecsS01F12 ==
  [name |-> "SecsS01F12",
   stream |-> 1,
   function |-> 12,
   formatDescriptor |->
      SecsVarArray(SecsVarList(OrderedDict(<<
        <<"SVID", dataitems.SVID>>,
        <<"SVNAME", dataitems.SVNAME>>,
        <<"UNITS", dataitems.UNITS>>
      >>), 3)),
   toHost |-> TRUE,
   toEquipment |-> FALSE,
   hasReply |-> FALSE,
   isReplyRequired |-> FALSE,
   isMultiBlock |-> TRUE]

\* S1F13 declared as the List of its docstring: {MDLN: A[20], SOFTREV: A[20]}
SecsS01F13_List ==
  [name |-> "SecsS01F13",
   stream |-> 1,
   function |-> 13,
   formatDescriptor |->
      SecsVarList(OrderedDict(<<
        <<"MDLN", SecsVarString(20)>>,
        <<"SOFTREV", SecsVarString(20)>>
      >>), 2),
   toHost |-> TRUE,
   toEquipment |-> TRUE,
   hasReply |-> TRUE,
   isReplyRequired |-> TRUE,
   isMultiBlock |-> FALSE]

SecsS01F13 ==
  [name |-> "SecsS01F13",
   stream |-> 1,
   function |-> 13,
   formatDescriptor |->
      SecsVarArray(SecsVarString(20)),
   toHost |-> TRUE,
   toEquipment |-> TRUE,
   hasReply |-> TRUE,
   isReplyRequired |-> TRUE,
   isMultiBlock |-> FALSE]

SecsS01F14 ==
  [name |-> "SecsS01F14",
   stream |-> 1,
   function |-> 14,
   formatDescriptor |->
      SecsVarList(OrderedDict(<<
        <<"COMMACK", dataitems.COMMACK>>,
        <<"DATA", SecsVarArray(SecsVarString(20))>>
      >>), 2),
   toHost |-> TRUE,
   toEquipment |-> TRUE,
   hasReply |-> FALSE,
   isReplyRequired |-> FALSE,
   isMultiBlock |-> FALSE]

\* SecsS01F15 with _isReplyRequired set but _hasReply cleared
SecsS01F15_RequiredOnly ==
  [name |-> "SecsS01F15",
   stream |-> 1,
   function |-> 15,
   formatDescriptor |->
      None,
   toHost |-> FALSE,
   toEquipment |-> TRUE,
   hasReply |-> FALSE,
   isReplyRequired |-> TRUE,
   isMultiBlock |-> FALSE]

SecsS01F15 ==
  [name |-> "SecsS01F15",
   stream |-> 1,
   function |-> 15,
   formatDescriptor |->
      None,
   toHost |-> FALSE,
   toEquipment |-> TRUE,
   hasReply |-> TRUE,
   isReplyRequired |-> TRUE,
   isMultiBlock |-> FALSE]

\* SecsS01F16 with _isMultiBlock set on a fixed-length body
SecsS01F16_MultiBlock ==
  [name |-> "SecsS01F16",
   stream |-> 1,
   function |-> 16,
   formatDescriptor |->
      dataitems.OFLACK,
   toHost |-> TRUE,
   toEquipment |-> FALSE,
   hasReply |-> FALSE,
   isReplyRequired |-> FALSE,
   isMultiBlock |-> TRUE]

SecsS01F16 ==
  [name |-> "SecsS01F16",
   stream |-> 1,
   function |-> 16,
   formatDescriptor |->
      dataitems.OFLACK,
   toHost |-> TRUE,
   toEquipment |-> FALSE,
   hasReply |-> FALSE,
   isReplyRequired |-> FALSE,
   isMultiBlock |-> FALSE]

SecsS01F17 ==
  [name |-> "SecsS01F17",
   stream |-> 1,
   function |-> 17,
   formatDescriptor |->
      None,
   toHost |-> FALSE,
   toEquipment |-> TRUE,
   hasReply |-> TRUE,
   isReplyRequired |-> TRUE,
   isMultiBlock |-> FALSE]

SecsS01F18 ==
  [name |-> "SecsS01F18",
   stream |-> 1,
   function |-> 18,
   formatDescriptor |->
      dataitems.ONLACK,
   toHost |-> TRUE,
   toEquipment |-> FALSE,
   hasReply |-> FALSE,
   isReplyRequired |-> FALSE,
   isMultiBlock |-> FALSE]

SecsS02F00 ==
  [name |-> "SecsS02F00",
   stream |-> 2,
   function |-> 0,
   formatDescriptor |->
      None,
   toHost |-> TRUE,
   toEquipment |-> TRUE,
   hasReply |-> FALSE,
   isReplyRequired |-> FALSE,
   isMultiBlock |-> FALSE]

SecsS02F13 ==
  [name |-> "SecsS02F13",
   stream |-> 2,
   function |-> 13,
   formatDescriptor |->
      SecsVarArray(dataitems.ECID),
   toHost |-> FALSE,
   toEquipment |-> TRUE,
   hasReply |-> TRUE,
   isReplyRequired |-> TRUE,
   isMultiBlock |-> FALSE]

SecsS02F14 ==
  [name |-> "SecsS02F14",
   stream |-> 2,
   function |-> 14,
   formatDescriptor |->
      SecsVarArray(dataitems.ECV),
   toHost |-> TRUE,
   toEquipment |-> FALSE,
   hasReply |-> FALSE,
   isReplyRequired |-> FALSE,
   isMultiBlock |-> TRUE]

\* S2F15 declared with the value before the identifier
SecsS02F15_ValueFirst ==
  [name |-> "SecsS02F15",
   stream |-> 2,
   function |-> 15,
   formatDescriptor |->
      SecsVarArray(SecsVarList(OrderedDict(<<
        <<"ECV", dataitems.ECV>>,
        <<"ECID", dataitems.ECID>>
      >>), 2)),
   toHost |-> FALSE,
   toEquipment |-> TRUE,
   hasReply |-> TRUE,
   isReplyRequired |-> TRUE,
   isMultiBlock |-> FALSE]

SecsS02F15 ==
  [name |-> "SecsS02F15",
   stream |-> 2,
   function |-> 15,
   formatDescriptor |->
      SecsVarArray(SecsVarList(OrderedDict(<<
        <<"ECID", dataitems.ECID>>,
        <<"ECV", dataitems.ECV>>
      >>), 2)),
   toHost |-> FALSE,
   toEquipment |-> TRUE,
   hasReply |-> TRUE,
   isReplyRequired |-> TRUE,
   isMultiBlock |-> FALSE]

SecsS02F16 ==
  [name |-> "SecsS02F16",
   stream |-> 2,
   function |-> 16,
   formatDescriptor |->
      dataitems.EAC,
   toHost |-> TRUE,
   toEquipment |-> FALSE,
   hasReply |-> FALSE,
   isReplyRequired |-> FALSE,
   isMultiBlock |-> FALSE]

SecsS02F17 ==
  [name |-> "SecsS02F17",
   stream |-> 2,
   function |-> 17,
   formatDescriptor |->
      None,
   toHost |-> TRUE,
   toEquipment |-> TRUE,
   hasReply |-> TRUE,
   isReplyRequired |-> TRUE,
   isMultiBlock |-> FALSE]

SecsS02F18 ==
  [name |-> "SecsS02F18",
   stream |-> 2,
   function |-> 18,
   formatDescriptor |->
      dataitems.TIME,
   toHost |-> TRUE,
   toEquipment |-> TRUE,
   hasReply |-> FALSE,
   isReplyRequired |-> FALSE,
   isMultiBlock |-> FALSE]

SecsS02F29 ==
  [name |-> "SecsS02F29",
   stream |-> 2,
   function |-> 29,
   formatDescriptor |->
      SecsVarArray(dataitems.ECID),
   toHost |-> FALSE,
   toEquipment |-> TRUE,
   hasReply |-> TRUE,
   isReplyRequired |-> TRUE,
   isMultiBlock |-> FALSE]

SecsS02F30 ==
  [name |-> "SecsS02F30",
   stream |-> 2,
   function |-> 30,
   formatDescriptor |->
      SecsVarArray(SecsVarList(OrderedDict(<<
        <<"ECID", dataitems.ECID>>,
        <<"ECNAME", dataitems.ECNAME>>,
        <<"ECMIN", dataitems.ECMIN>>,
        <<"ECMAX", dataitems.ECMAX>>,
        <<"ECDEF", dataitems.ECDEF>>,
        <<"UNITS", dataitems.UNITS>>
      >>), 6)),
   toHost |-> TRUE,
   toEquipment |-> FALSE,
   hasReply |-> FALSE,
   isReplyRequired |-> FALSE,
   isMultiBlock |-> TRUE]

SecsS02F33 ==
  [name |-> "SecsS02F33",
   stream |-> 2,
   function |-> 33,
   formatDescriptor |->
      SecsVarList(OrderedDict(<<
        <<"DATAID", dataitems.DATAID>>,
        <<"DATA", SecsVarArray(SecsVarList(OrderedDict(<<
          <<"RPTID", dataitems.RPTID>>,
          <<"VID", SecsVarArray(dataitems.VID)>>
        >>), 2))>>
      >>), 2),
   toHost |-> FALSE,
   toEquipment |-> TRUE,
   hasReply |-> TRUE,
   isReplyRequired |-> TRUE,
   isMultiBlock |-> TRUE]

SecsS02F34 ==
  [name |-> "SecsS02F34",
   stream |-> 2,
   function |-> 34,
   formatDescriptor |->
      dataitems.DRACK,
   toHost |-> TRUE,
   toEquipment |-> FALSE,
   hasReply |-> FALSE,
   isReplyRequired |-> FALSE,
   isMultiBlock |-> FALSE]

SecsS02F35 ==
  [name |-> "SecsS02F35",
   stream |-> 2,
   function |-> 35,
   formatDescriptor |->
      SecsVarList(OrderedDict(<<
        <<"DATAID", dataitems.DATAID>>,
        <<"DATA", SecsVarArray(SecsVarList(OrderedDict(<<
          <<"CEID", dataitems.CEID>>,
          <<"RPTID", SecsVarArray(dataitems.RPTID)>>
        >>), 2))>>
      >>), 2),
   toHost |-> FALSE,
   toEquipment |-> TRUE,
   hasReply |-> TRUE,
   isReplyRequired |-> TRUE,
   isMultiBlock |-> TRUE]

\* SecsS02F36 with neither direction set
SecsS02F36_NoDirection ==
  [name |-> "SecsS02F36",
   stream |-> 2,
   function |-> 36,
   formatDescriptor |->
      dataitems.LRACK,
   toHost |-> FALSE,
   toEquipment |-> FALSE,
   hasReply |-> FALSE,
   isReplyRequired |-> FALSE,
   isMultiBlock |-> FALSE]

SecsS02F36 ==
  [name |-> "SecsS02F36",
   stream |-> 2,
   function |-> 36,
   formatDescriptor |->
      dataitems.LRACK,
   toHost |-> FALSE,
   toEquipment |-> TRUE,
   hasReply |-> FALSE,
   isReplyRequired |-> FALSE,
   isMultiBlock |-> FALSE]

SecsS02F37 ==
  [name |-> "SecsS02F37",
   stream |-> 2,
   function |-> 37,
   formatDescriptor |->
      SecsVarList(OrderedDict(<<
        <<"CEED", dataitems.CEED>>,
        <<"CEID", SecsVarArray(dataitems.CEID)>>
      >>), 2),
   toHost |-> FALSE,
   toEquipment |-> TRUE,
   hasReply |-> TRUE,
   isReplyRequired |-> TRUE,
   isMultiBlock |-> FALSE]

SecsS02F38 ==
  [name |-> "SecsS02F38",
   stream |-> 2,
   function |-> 38,
   formatDescriptor |->
      dataitems.ERACK,
   toHost |-> TRUE,
   toEquipment |-> FALSE,
   hasReply |-> FALSE,
   isReplyRequired |-> FALSE,
   isMultiBlock |-> FALSE]

SecsS02F41 ==
  [name |-> "SecsS02F41",
   stream |-> 2,
   function |-> 41,
   formatDescriptor |->
      SecsVarList(OrderedDict(<<
        <<"RCMD", dataitems.RCMD>>,
        <<"PARAMS", SecsVarArray(SecsVarList(OrderedDict(<<
          <<"CPNAME", dataitems.CPNAME>>,
          <<"CPVAL", dataitems.CPVAL>>
        >>), 2))>>
      >>), 2),
   toHost |-> FALSE,
   toEquipment |-> TRUE,
   hasReply |-> TRUE,
   isReplyRequired |-> TRUE,
   isMultiBlock |-> FALSE]

SecsS02F42 ==
  [name |-> "SecsS02F42",
   stream |-> 2,
   function |-> 42,
   formatDescriptor |->
      SecsVarList(OrderedDict(<<
        <<"HCACK", dataitems.HCACK>>,
        <<"PARAMS", SecsVarArray(SecsVarList(OrderedDict(<<
          <<"CPNAME", dataitems.CPNAME>>,
          <<"CPACK", dataitems.CPACK>>
        >>), 2))>>
      >>), 2),
   toHost |-> TRUE,
   toEquipment |-> FALSE,
   hasReply |-> FALSE,
   isReplyRequired |-> FALSE,
   isMultiBlock |-> FALSE]

SecsS05F00 ==
  [name |-> "SecsS05F00",
   stream |-> 5,
   function |-> 0,
   formatDescriptor |->
      None,
   toHost |-> TRUE,
   toEquipment |-> TRUE,
   hasReply |-> FALSE,
   isReplyRequired |-> FALSE,
   isMultiBlock |-> FALSE]

SecsS05F01 ==
  [name |-> "SecsS05F01",
   stream |-> 5,
   function |-> 1,
   formatDescriptor |->
      SecsVarList(OrderedDict(<<
        <<"ALCD", dataitems.ALCD>>,
        <<"ALID", dataitems.ALID>>,
        <<"ALTX", dataitems.ALTX>>
      >>), 3),
   toHost |-> TRUE,
   toEquipment |-> FALSE,
   hasReply |-> TRUE,
   isReplyRequired |-> FALSE,
   isMultiBlock |-> FALSE]

SecsS05F02 ==
  [name |-> "SecsS05F02",
   stream |-> 5,
   function |-> 2,
   formatDescriptor |->
      dataitems.ACKC5,
   toHost |-> FALSE,
   toEquipment |-> TRUE,
   hasReply |-> FALSE,
   isReplyRequired |-> FALSE,
   isMultiBlock |-> FALSE]

SecsS06F00 ==
  [name |-> "SecsS06F00",
   stream |-> 6,
   function |-> 0,
   formatDescriptor |->
      None,
   toHost |-> TRUE,
   toEquipment |-> TRUE,
   hasReply |-> FALSE,
   isReplyRequired |-> FALSE,
   isMultiBlock |-> FALSE]

\* S6F5 with the DATALENGTH its docstring gives: U4[1]
SecsS06F05_U4 ==
  [name |-> "SecsS06F05",
   stream |-> 6,
   function |-> 5,
   formatDescriptor |->
      SecsVarList(OrderedDict(<<
        <<"DATAID", dataitems.DATAID>>,
        <<"DATALENGTH", SecsVarU4(1)>>
      >>), 2),
   toHost |-> TRUE,
   toEquipment |-> FALSE,
   hasReply |-> TRUE,
   isReplyRequired |-> TRUE,
   isMultiBlock |-> FALSE]

SecsS06F05 ==
  [name |-> "SecsS06F05",
   stream |-> 6,
   function |-> 5,
   formatDescriptor |->
      SecsVarList(OrderedDict(<<
        <<"DATAID", dataitems.DATAID>>,
        <<"DATALENGTH", SecsVarDynamic(<<"SecsVarU1", "SecsVarU2", "SecsVarU4", "SecsVarU8", "SecsVarI1", "SecsVarI2", "SecsVarI4", "SecsVarI8">>)>>
      >>), 2),
   toHost |-> TRUE,
   toEquipment |-> FALSE,
   hasReply |-> TRUE,
   isReplyRequired |-> TRUE,
   isMultiBlock |-> FALSE]

\* S6F6 declared as a message that expects a reply
SecsS06F06_HasReply ==
  [name |-> "SecsS06F06",
   stream |-> 6,
   function |-> 6,
   formatDescriptor |->
      SecsVarBinary(1),
   toHost |-> FALSE,
   toEquipment |-> TRUE,
   hasReply |-> TRUE,
   isReplyRequired |-> FALSE,
   isMultiBlock |-> FALSE]

SecsS06F06 ==
  [name |-> "SecsS06F06",
   stream |-> 6,
   function |-> 6,
   formatDescriptor |->
      SecsVarBinary(1),
   toHost |-> FALSE,
   toEquipment |-> TRUE,
   hasReply |-> FALSE,
   isReplyRequired |-> FALSE,
   isMultiBlock |-> FALSE]

SecsS06F07 ==
  [name |-> "SecsS06F07",
   stream |-> 6,
   function |-> 7,
   formatDescriptor |->
      SecsVarU4(1),
   toHost |-> FALSE,
   toEquipment |-> TRUE,
   hasReply |-> TRUE,
   isReplyRequired |-> TRUE,
   isMultiBlock |-> FALSE]

\* S6F8, a reply, declared as a message that expects a reply itself
SecsS06F08_HasReply ==
  [name |-> "SecsS06F08",
   stream |-> 6,
   function |-> 8,
   formatDescriptor |->
      SecsVarList(OrderedDict(<<
        <<"DATAID", dataitems.DATAID>>,
        <<"CEID", dataitems.CEID>>,
        <<"DS", SecsVarArray(SecsVarList(OrderedDict(<<
          <<"DSID", SecsVarDynamic(<<"SecsVarString", "SecsVarU1", "SecsVarU2", "SecsVarU4", "SecsVarU8", "SecsVarI1", "SecsVarI2", "SecsVarI4", "SecsVarI8">>)>>,
          <<"DV", SecsVarArray(SecsVarList(OrderedDict(<<
            <<"DVNAME", SecsVarDynamic(<<"SecsVarString", "SecsVarU1", "SecsVarU2", "SecsVarU4", "SecsVarU8", "SecsVarI1", "SecsVarI2", "SecsVarI4", "SecsVarI8">>)>>,
            <<"DVVAL", SecsVarDynamic(<<"SecsVarString", "SecsVarU1", "SecsVarU2", "SecsVarU4", "SecsVarU8", "SecsVarI1", "SecsVarI2", "SecsVarI4", "SecsVarI8">>)>>
          >>), 2))>>
        >>), 2))>>
      >>), 3),
   toHost |-> TRUE,
   toEquipment |-> FALSE,
   hasReply |-> TRUE,
   isReplyRequired |-> FALSE,
   isMultiBlock |-> TRUE]

SecsS06F08 ==
  [name |-> "SecsS06F08",
   stream |-> 6,
   function |-> 8,
   formatDescriptor |->
      SecsVarList(OrderedDict(<<
        <<"DATAID", dataitems.DATAID>>,
        <<"CEID", dataitems.CEID>>,
        <<"DS", SecsVarArray(SecsVarList(OrderedDict(<<
          <<"DSID", SecsVarDynamic(<<"SecsVarString", "SecsVarU1", "SecsVarU2", "SecsVarU4", "SecsVarU8", "SecsVarI1", "SecsVarI2", "SecsVarI4", "SecsVarI8">>)>>,
          <<"DV", SecsVarArray(SecsVarList(OrderedDict(<<
            <<"DVNAME", SecsVarDynamic(<<"SecsVarString", "SecsVarU1", "SecsVarU2", "SecsVarU4", "SecsVarU8", "SecsVarI1", "SecsVarI2", "SecsVarI4", "SecsVarI8">>)>>,
            <<"DVVAL", SecsVarDynamic(<<"SecsVarString", "SecsVarU1", "SecsVarU2", "SecsVarU4", "SecsVarU8", "SecsVarI1", "SecsVarI2", "SecsVarI4", "SecsVarI8">>)>>
          >>), 2))>>
        >>), 2))>>
      >>), 3),
   toHost |-> TRUE,
   toEquipment |-> FALSE,
   hasReply |-> FALSE,
   isReplyRequired |-> FALSE,
   isMultiBlock |-> TRUE]

SecsS06F11 ==
  [name |-> "SecsS06F11",
   stream |-> 6,
   function |-> 11,
   formatDescriptor |->
      SecsVarList(OrderedDict(<<
        <<"DATAID", dataitems.DATAID>>,
        <<"CEID", dataitems.CEID>>,
        <<"RPT", SecsVarArray(SecsVarList(OrderedDict(<<
          <<"RPTID", dataitems.RPTID>>,
          <<"V", SecsVarArray(SecsVarDynamic(<<>>))>>
        >>), 2))>>
      >>), 3),
   toHost |-> TRUE,
   toEquipment |-> FALSE,
   hasReply |-> TRUE,
   isReplyRequired |-> TRUE,
   isMultiBlock |-> TRUE]

SecsS06F12 ==
  [name |-> "SecsS06F12",
   stream |-> 6,
   function |-> 12,
   formatDescriptor |->
      SecsVarBinary(1),
   toHost |-> FALSE,
   toEquipment |-> TRUE,
   hasReply |-> FALSE,
   isReplyRequired |-> FALSE,
   isMultiBlock |-> FALSE]

SecsS06F15 ==
  [name |-> "SecsS06F15",
   stream |-> 6,
   function |-> 15,
   formatDescriptor |->
      dataitems.CEID,
   toHost |-> FALSE,
   toEquipment |-> TRUE,
   hasReply |-> TRUE,
   isReplyRequired |-> TRUE,
   isMultiBlock |-> FALSE]

SecsS06F16 ==
  [name |-> "SecsS06F16",
   stream |-> 6,
   function |-> 16,
   formatDescriptor |->
      SecsVarList(OrderedDict(<<
        <<"DATAID", dataitems.DATAID>>,
        <<"CEID", dataitems.CEID>>,
        <<"RPT", SecsVarArray(SecsVarList(OrderedDict(<<
          <<"RPTID", dataitems.RPTID>>,
          <<"V", SecsVarArray(SecsVarDynamic(<<>>))>>
        >>), 2))>>
      >>), 3),
   toHost |-> TRUE,
   toEquipment |-> FALSE,
   hasReply |-> FALSE,
   isReplyRequired |-> FALSE,
   isMultiBlock |-> TRUE]

SecsS06F19 ==
  [name |-> "SecsS06F19",
   stream |-> 6,
   function |-> 19,
   formatDescriptor |->
      dataitems.RPTID,
   toHost |-> FALSE,
   toEquipment |-> TRUE,
   hasReply |-> TRUE,
   isReplyRequired |-> TRUE,
   isMultiBlock |-> FALSE]

\* S6F20 with values that may be text or unsigned integers only
SecsS06F20_Listed ==
  [name |-> "SecsS06F20",
   stream |-> 6,
   function |-> 20,
   formatDescriptor |->
      SecsVarArray(SecsVarDynamic(<<"SecsVarString">> \o UnsignedTypes)),
   toHost |-> TRUE,
   toEquipment |-> FALSE,
   hasReply |-> FALSE,
   isReplyRequired |-> FALSE,
   isMultiBlock |-> TRUE]

SecsS06F20 ==
  [name |-> "SecsS06F20",
   stream |-> 6,
   function |-> 20,
   formatDescriptor |->
      SecsVarArray(SecsVarDynamic(<<>>)),
   toHost |-> TRUE,
   toEquipment |-> FALSE,
   hasReply |-> FALSE,
   isReplyRequired |-> FALSE,
   isMultiBlock |-> TRUE]

SecsS06F21 ==
  [name |-> "SecsS06F21",
   stream |-> 6,
   function |-> 21,
   formatDescriptor |->
      dataitems.RPTID,
   toHost |-> FALSE,
   toEquipment |-> TRUE,
   hasReply |-> TRUE,
   isReplyRequired |-> TRUE,
   isMultiBlock |-> FALSE]

SecsS06F22 ==
  [name |-> "SecsS06F22",
   stream |-> 6,
   function |-> 22,
   formatDescriptor |->
      SecsVarArray(SecsVarList(OrderedDict(<<
        <<"VID", dataitems.VID>>,
        <<"V", SecsVarDynamic(<<>>)>>
      >>), 2)),
   toHost |-> TRUE,
   toEquipment |-> FALSE,
   hasReply |-> FALSE,
   isReplyRequired |-> FALSE,
   isMultiBlock |-> TRUE]

SecsS07F00 ==
  [name |-> "SecsS07F00",
   stream |-> 7,
   function |-> 0,
   formatDescriptor |->
      None,
   toHost |-> TRUE,
   toEquipment |-> TRUE,
   hasReply |-> FALSE,
   isReplyRequired |-> FALSE,
   isMultiBlock |-> FALSE]

SecsS07F01 ==
  [name |-> "SecsS07F01",
   stream |-> 7,
   function |-> 1,
   formatDescriptor |->
      SecsVarList(OrderedDict(<<
        <<"PPID", SecsVarString(NoLength)>>,
        <<"LENGTH", SecsVarU4(1)>>
      >>), 2),
   toHost |-> TRUE,
   toEquipment |-> TRUE,
   hasReply |-> TRUE,
   isReplyRequired |-> TRUE,
   isMultiBlock |-> FALSE]

SecsS07F02 ==
  [name |-> "SecsS07F02",
   stream |-> 7,
   function |-> 2,
   formatDescriptor |->
      SecsVarBinary(1),
   toHost |-> TRUE,
   toEquipment |-> TRUE,
   hasReply |-> FALSE,
   isReplyRequired |-> FALSE,
   isMultiBlock |-> FALSE]

SecsS07F03 ==
  [name |-> "SecsS07F03",
   stream |-> 7,
   function |-> 3,
   formatDescriptor |->
      SecsVarList(OrderedDict(<<
        <<"PPID", SecsVarString(NoLength)>>,
        <<"PPBODY", SecsVarBinary(NoLength)>>
      >>), 2),
   toHost |-> TRUE,
   toEquipment |-> TRUE,
   hasReply |-> TRUE,
   isReplyRequired |-> TRUE,
   isMultiBlock |-> TRUE]

SecsS07F04 ==
  [name |-> "SecsS07F04",
   stream |-> 7,
   function |-> 4,
   formatDescriptor |->
      SecsVarBinary(1),
   toHost |-> TRUE,
   toEquipment |-> TRUE,
   hasReply |-> FALSE,
   isReplyRequired |-> FALSE,
   isMultiBlock |-> FALSE]

SecsS07F05 ==
  [name |-> "SecsS07F05",
   stream |-> 7,
   function |-> 5,
   formatDescriptor |->
      SecsVarString(NoLength),
   toHost |-> TRUE,
   toEquipment |-> TRUE,
   hasReply |-> TRUE,
   isReplyRequired |-> TRUE,
   isMultiBlock |-> FALSE]

SecsS07F06 ==
  [name |-> "SecsS07F06",
   stream |-> 7,
   function |-> 6,
   formatDescriptor |->
      SecsVarList(OrderedDict(<<
        <<"PPID", SecsVarString(NoLength)>>,
        <<"PPBODY", SecsVarBinary(NoLength)>>
      >>), 2),
   toHost |-> TRUE,
   toEquipment |-> TRUE,
   hasReply |-> FALSE,
   isReplyRequired |-> FALSE,
   isMultiBlock |-> TRUE]

SecsS07F17 ==
  [name |-> "SecsS07F17",
   stream |-> 7,
   function |-> 17,
   formatDescriptor |->
      SecsVarArray(SecsVarString(NoLength)),
   toHost |-> FALSE,
   toEquipment |-> TRUE,
   hasReply |-> TRUE,
   isReplyRequired |-> TRUE,
   isMultiBlock |-> FALSE]

SecsS07F18 ==
  [name |-> "SecsS07F18",
   stream |-> 7,
   function |-> 18,
   formatDescriptor |->
      SecsVarBinary(1),
   toHost |-> TRUE,
   toEquipment |-> FALSE,
   hasReply |-> FALSE,
   isReplyRequired |-> FALSE,
   isMultiBlock |-> FALSE]

SecsS07F19 ==
  [name |-> "SecsS07F19",
   stream |-> 7,
   function |-> 19,
   formatDescriptor |->
      None,
   toHost |-> FALSE,
   toEquipment |-> TRUE,
   hasReply |-> TRUE,
   isReplyRequired |-> TRUE,
   isMultiBlock |-> FALSE]

SecsS07F20 ==
  [name |-> "SecsS07F20",
   stream |-> 7,
   function |-> 20,
   formatDescriptor |->
      SecsVarArray(SecsVarString(NoLength)),
   toHost |-> TRUE,
   toEquipment |-> FALSE,
   hasReply |-> FALSE,
   isReplyRequired |-> FALSE,
   isMultiBlock |-> TRUE]

SecsS09F00 ==
  [name |-> "SecsS09F00",
   stream |-> 9,
   function |-> 0,
   formatDescriptor |->
      None,
   toHost |-> TRUE,
   toEquipment |-> TRUE,
   hasReply |-> FALSE,
   isReplyRequired |-> FALSE,
   isMultiBlock |-> FALSE]

SecsS09F01 ==
  [name |-> "SecsS09F01",
   stream |-> 9,
   function |-> 1,
   formatDescriptor |->
      SecsVarBinary(10),
   toHost |-> TRUE,
   toEquipment |-> FALSE,
   hasReply |-> FALSE,
   isReplyRequired |-> FALSE,
   isMultiBlock |-> FALSE]

SecsS09F03 ==
  [name |-> "SecsS09F03",
   stream |-> 9,
   function |-> 3,
   formatDescriptor |->
      SecsVarBinary(10),
   toHost |-> TRUE,
   toEquipment |-> FALSE,
   hasReply |-> FALSE,
   isReplyRequired |-> FALSE,
   isMultiBlock |-> FALSE]

SecsS09F05 ==
  [name |-> "SecsS09F05",
   stream |-> 9,
   function |-> 5,
   formatDescriptor |->
      SecsVarBinary(10),
   toHost |-> TRUE,
   toEquipment |-> FALSE,
   hasReply |-> FALSE,
   isReplyRequired |-> FALSE,
   isMultiBlock |-> FALSE]

SecsS09F07 ==
  [name |-> "SecsS09F07",
   stream |-> 9,
   function |-> 7,
   formatDescriptor |->
      SecsVarBinary(10),
   toHost |-> TRUE,
   toEquipment |-> FALSE,
   hasReply |-> FALSE,
   isReplyRequired |-> FALSE,
   isMultiBlock |-> FALSE]

SecsS09F09 ==
  [name |-> "SecsS09F09",
   stream |-> 9,
   function |-> 9,
   formatDescriptor |->
      SecsVarBinary(10),
   toHost |-> TRUE,
   toEquipment |-> FALSE,
   hasReply |-> FALSE,
   isReplyRequired |-> FALSE,
   isMultiBlock |-> FALSE]

SecsS09F11 ==
  [name |-> "SecsS09F11",
   stream |-> 9,
   function |-> 11,
   formatDescriptor |->
      SecsVarBinary(10),
   toHost |-> TRUE,
   toEquipment |-> FALSE,
   hasReply |-> FALSE,
   isReplyRequired |-> FALSE,
   isMultiBlock |-> FALSE]

\* S9F13 declared with an arity of 3 for its two fields
SecsS09F13_Arity3 ==
  [name |-> "SecsS09F13",
   stream |-> 9,
   function |-> 13,
   formatDescriptor |->
      SecsVarList(OrderedDict(<<
        <<"MEXP", SecsVarString(6)>>,
        <<"EDID", SecsVarString(80)>>
      >>), 3),
   toHost |-> TRUE,
   toEquipment |-> FALSE,
   hasReply |-> FALSE,
   isReplyRequired |-> FALSE,
   isMultiBlock |-> FALSE]

SecsS09F13 ==
  [name |-> "SecsS09F13",
   stream |-> 9,
   function |-> 13,
   formatDescriptor |->
      SecsVarList(OrderedDict(<<
        <<"MEXP", SecsVarString(6)>>,
        <<"EDID", SecsVarString(80)>>
      >>), 2),
   toHost |-> TRUE,
   toEquipment |-> FALSE,
   hasReply |-> FALSE,
   isReplyRequired |-> FALSE,
   isMultiBlock |-> FALSE]

SecsS10F00 ==
  [name |-> "SecsS10F00",
   stream |-> 10,
   function |-> 0,
   formatDescriptor |->
      None,
   toHost |-> TRUE,
   toEquipment |-> TRUE,
   hasReply |-> FALSE,
   isReplyRequired |-> FALSE,
   isMultiBlock |-> FALSE]

\* S10F1 declared with an arity of 3 for its two fields
SecsS10F01_Arity3 ==
  [name |-> "SecsS10F01",
   stream |-> 10,
   function |-> 1,
   formatDescriptor |->
      SecsVarList(OrderedDict(<<
        <<"TID", SecsVarBinary(1)>>,
        <<"TEXT", SecsVarString(NoLength)>>
      >>), 3),
   toHost |-> TRUE,
   toEquipment |-> FALSE,
   hasReply |-> TRUE,
   isReplyRequired |-> FALSE,
   isMultiBlock |-> FALSE]

SecsS10F01 ==
  [name |-> "SecsS10F01",
   stream |-> 10,
   function |-> 1,
   formatDescriptor |->
      SecsVarList(OrderedDict(<<
        <<"TID", SecsVarBinary(1)>>,
        <<"TEXT", SecsVarString(NoLength)>>
      >>), 2),
   toHost |-> TRUE,
   toEquipment |-> FALSE,
   hasReply |-> TRUE,
   isReplyRequired |-> FALSE,
   isMultiBlock |-> FALSE]

SecsS10F02 ==
  [name |-> "SecsS10F02",
   stream |-> 10,
   function |-> 2,
   formatDescriptor |->
      SecsVarBinary(1),
   toHost |-> FALSE,
   toEquipment |-> TRUE,
   hasReply |-> FALSE,
   isReplyRequired |-> FALSE,
   isMultiBlock |-> FALSE]

SecsS10F03 ==
  [name |-> "SecsS10F03",
   stream |-> 10,
   function |-> 3,
   formatDescriptor |->
      SecsVarList(OrderedDict(<<
        <<"TID", SecsVarBinary(1)>>,
        <<"TEXT", SecsVarString(NoLength)>>
      >>), 2),
   toHost |-> FALSE,
   toEquipment |-> TRUE,
   hasReply |-> TRUE,
   isReplyRequired |-> FALSE,
   isMultiBlock |-> FALSE]

SecsS10F04 ==
  [name |-> "SecsS10F04",
   stream |-> 10,
   function |-> 4,
   formatDescriptor |->
      SecsVarBinary(1),
   toHost |-> TRUE,
   toEquipment |-> FALSE,
   hasReply |-> FALSE,
   isReplyRequired |-> FALSE,
   isMultiBlock |-> FALSE]

\* S12F0 allowed from the host to the equipment only
SecsS12F00_OneWay ==
  [name |-> "SecsS12F00",
   stream |-> 12,
   function |-> 0,
   formatDescriptor |->
      None,
   toHost |-> FALSE,
   toEquipment |-> TRUE,
   hasReply |-> FALSE,
   isReplyRequired |-> FALSE,
   isMultiBlock |-> FALSE]

SecsS12F00 ==
  [name |-> "SecsS12F00",
   stream |-> 12,
   function |-> 0,
   formatDescriptor |->
      None,
   toHost |-> TRUE,
   toEquipment |-> TRUE,
   hasReply |-> FALSE,
   isReplyRequired |-> FALSE,
   isMultiBlock |-> FALSE]

\* S12F1 with a NULBC that permits every type
SecsS12F01_AnyNulbc ==
  [name |-> "SecsS12F01",
   stream |-> 12,
   function |-> 1,
   formatDescriptor |->
      SecsVarList(OrderedDict(<<
        <<"MID", SecsVarString(16)>>,
        <<"IDTYP", SecsVarBinary(1)>>,
        <<"FNLOC", SecsVarU2(1)>>,
        <<"FFROT", SecsVarU2(1)>>,
        <<"ORLOC", SecsVarBinary(1)>>,
        <<"RPSEL", SecsVarU1(1)>>,
        <<"REF", SecsVarArray(SecsVarI4(2))>>,
        <<"DUTMS", SecsVarString(NoLength)>>,
        <<"XDIES", SecsVarU4(1)>>,
        <<"YDIES", SecsVarU4(1)>>,
        <<"ROWCT", SecsVarU4(1)>>,
        <<"COLCT", SecsVarU4(1)>>,
        <<"NULBC", SecsVarDynamic(<<>>)>>,
        <<"PRDCT", SecsVarU4(1)>>,
        <<"PRAXI", SecsVarBinary(1)>>
      >>), 15),
   toHost |-> TRUE,
   toEquipment |-> FALSE,
   hasReply |-> TRUE,
   isReplyRequired |-> TRUE,
   isMultiBlock |-> FALSE]

SecsS12F01 ==
  [name |-> "SecsS12F01",
   stream |-> 12,
   function |-> 1,
   formatDescriptor |->
      SecsVarList(OrderedDict(<<
        <<"MID", SecsVarString(16)>>,
        <<"IDTYP", SecsVarBinary(1)>>,
        <<"FNLOC", SecsVarU2(1)>>,
        <<"FFROT", SecsVarU2(1)>>,
        <<"ORLOC", SecsVarBinary(1)>>,
        <<"RPSEL", SecsVarU1(1)>>,
        <<"REF", SecsVarArray(SecsVarI4(2))>>,
        <<"DUTMS", SecsVarString(NoLength)>>,
        <<"XDIES", SecsVarU4(1)>>,
        <<"YDIES", SecsVarU4(1)>>,
        <<"ROWCT", SecsVarU4(1)>>,
        <<"COLCT", SecsVarU4(1)>>,
        <<"NULBC", SecsVarDynamic(<<"SecsVarString", "SecsVarU1">>)>>,
        <<"PRDCT", SecsVarU4(1)>>,
        <<"PRAXI", SecsVarBinary(1)>>
      >>), 15),
   toHost |-> TRUE,
   toEquipment |-> FALSE,
   hasReply |-> TRUE,
   isReplyRequired |-> TRUE,
   isMultiBlock |-> FALSE]

SecsS12F02 ==
  [name |-> "SecsS12F02",
   stream |-> 12,
   function |-> 2,
   formatDescriptor |->
      SecsVarBinary(1),
   toHost |-> FALSE,
   toEquipment |-> TRUE,
   hasReply |-> FALSE,
   isReplyRequired |-> FALSE,
   isMultiBlock |-> FALSE]

SecsS12F03 ==
  [name |-> "SecsS12F03",
   stream |-> 12,
   function |-> 3,
   formatDescriptor |->
      SecsVarList(OrderedDict(<<
        <<"MID", SecsVarString(16)>>,
        <<"IDTYP", SecsVarBinary(1)>>,
        <<"MAPFT", SecsVarBinary(1)>>,
        <<"FNLOC", SecsVarU2(1)>>,
        <<"FFROT", SecsVarU2(1)>>,
        <<"ORLOC", SecsVarBinary(1)>>,
        <<"PRAXI", SecsVarBinary(1)>>,
        <<"BCEQU", SecsVarU1(NoLength)>>,
        <<"NULBC", SecsVarDynamic(<<"SecsVarString", "SecsVarU1">>)>>
      >>), 9),
   toHost |-> TRUE,
   toEquipment |-> FALSE,
   hasReply |-> TRUE,
   isReplyRequired |-> TRUE,
   isMultiBlock |-> FALSE]

SecsS12F04 ==
  [name |-> "SecsS12F04",
   stream |-> 12,
   function |-> 4,
   formatDescriptor |->
      SecsVarList(OrderedDict(<<
        <<"MID", SecsVarString(16)>>,
        <<"IDTYP", SecsVarBinary(1)>>,
        <<"FNLOC", SecsVarU2(1)>>,
        <<"ORLOC", SecsVarBinary(1)>>,
        <<"RPSEL", SecsVarU1(1)>>,
        <<"REF", SecsVarArray(SecsVarI4(2))>>,
        <<"DUTMS", SecsVarString(NoLength)>>,
        <<"XDIES", SecsVarU4(1)>>,
        <<"YDIES", SecsVarU4(1)>>,
        <<"ROWCT", SecsVarU4(1)>>,
        <<"COLCT", SecsVarU4(1)>>,
        <<"PRDCT", SecsVarU4(1)>>,
        <<"BCEQU", SecsVarU1(NoLength)>>,
        <<"NULBC", SecsVarDynamic(<<"SecsVarString", "SecsVarU1">>)>>,
        <<"MLCL", SecsVarU4(1)>>
      >>), 15),
   toHost |-> FALSE,
   toEquipment |-> TRUE,
   hasReply |-> FALSE,
   isReplyRequired |-> FALSE,
   isMultiBlock |-> FALSE]

SecsS12F05 ==
  [name |-> "SecsS12F05",
   stream |-> 12,
   function |-> 5,
   formatDescriptor |->
      SecsVarList(OrderedDict(<<
        <<"MID", SecsVarString(16)>>,
        <<"IDTYP", SecsVarBinary(1)>>,
        <<"MAPFT", SecsVarBinary(1)>>,
        <<"MLCL", SecsVarU4(1)>>
      >>), 4),
   toHost |-> TRUE,
   toEquipment |-> FALSE,
   hasReply |-> TRUE,
   isReplyRequired |-> TRUE,
   isMultiBlock |-> FALSE]

SecsS12F06 ==
  [name |-> "SecsS12F06",
   stream |-> 12,
   function |-> 6,
   formatDescriptor |->
      SecsVarBinary(1),
   toHost |-> FALSE,
   toEquipment |-> TRUE,
   hasReply |-> FALSE,
   isReplyRequired |-> FALSE,
   isMultiBlock |-> FALSE]

SecsS12F07 ==
  [name |-> "SecsS12F07",
   stream |-> 12,
   function |-> 7,
   formatDescriptor |->
      SecsVarList(OrderedDict(<<
        <<"MID", SecsVarString(16)>>,
        <<"IDTYP", SecsVarBinary(1)>>,
        <<"DATA", SecsVarArray(SecsVarList(OrderedDict(<<
          <<"RSINF", SecsVarI4(3)>>,
          <<"BINLT", SecsVarU1(NoLength)>>
        >>), 2))>>
      >>), 3),
   toHost |-> TRUE,
   toEquipment |-> FALSE,
   hasReply |-> TRUE,
   isReplyRequired |-> TRUE,
   isMultiBlock |-> TRUE]

SecsS12F08 ==
  [name |-> "SecsS12F08",
   stream |-> 12,
   function |-> 8,
   formatDescriptor |->
      SecsVarBinary(1),
   toHost |-> FALSE,
   toEquipment |-> TRUE,
   hasReply |-> FALSE,
   isReplyRequired |-> FALSE,
   isMultiBlock |-> FALSE]

SecsS12F09 ==
  [name |-> "SecsS12F09",
   stream |-> 12,
   function |-> 9,
   formatDescriptor |->
      SecsVarList(OrderedDict(<<
        <<"MID", SecsVarString(16)>>,
        <<"IDTYP", SecsVarBinary(1)>>,
        <<"STRP", SecsVarI2(2)>>,
        <<"BINLT", SecsVarU1(NoLength)>>
      >>), 4),
   toHost |-> TRUE,
   toEquipment |-> FALSE,
   hasReply |-> TRUE,
   isReplyRequired |-> TRUE,
   isMultiBlock |-> TRUE]

SecsS12F10 ==
  [name |-> "SecsS12F10",
   stream |-> 12,
   function |-> 10,
   formatDescriptor |->
      SecsVarBinary(1),
   toHost |-> FALSE,
   toEquipment |-> TRUE,
   hasReply |-> FALSE,
   isReplyRequired |-> FALSE,
   isMultiBlock |-> FALSE]

SecsS12F11 ==
  [name |-> "SecsS12F11",
   stream |-> 12,
   function |-> 11,
   formatDescriptor |->
      SecsVarList(OrderedDict(<<
        <<"MID", SecsVarString(16)>>,
        <<"IDTYP", SecsVarBinary(1)>>,
        <<"DATA", SecsVarArray(SecsVarList(OrderedDict(<<
          <<"XYPOS", SecsVarI2(2)>>,
          <<"BINLT", SecsVarU1(NoLength)>>
        >>), 2))>>
      >>), 3),
   toHost |-> TRUE,
   toEquipment |-> FALSE,
   hasReply |-> TRUE,
   isReplyRequired |-> TRUE,
   isMultiBlock |-> TRUE]

SecsS12F12 ==
  [name |-> "SecsS12F12",
   stream |-> 12,
   function |-> 12,
   formatDescriptor |->
      SecsVarBinary(1),
   toHost |-> FALSE,
   toEquipment |-> TRUE,
   hasReply |-> FALSE,
   isReplyRequired |-> FALSE,
   isMultiBlock |-> FALSE]

SecsS12F13 ==
  [name |-> "SecsS12F13",
   stream |-> 12,
   function |-> 13,
   formatDescriptor |->
      SecsVarList(OrderedDict(<<
        <<"MID", SecsVarString(16)>>,
        <<"IDTYP", SecsVarBinary(1)>>
      >>), 2),
   toHost |-> TRUE,
   toEquipment |-> FALSE,
   hasReply |-> TRUE,
   isReplyRequired |-> TRUE,
   isMultiBlock |-> FALSE]

SecsS12F14 ==
  [name |-> "SecsS12F14",
   stream |-> 12,
   function |-> 14,
   formatDescriptor |->
      SecsVarList(OrderedDict(<<
        <<"MID", SecsVarString(16)>>,
        <<"IDTYP", SecsVarBinary(1)>>,
        <<"DATA", SecsVarArray(SecsVarList(OrderedDict(<<
          <<"RSINF", SecsVarI4(3)>>,
          <<"BINLT", SecsVarU1(NoLength)>>
        >>), 2))>>
      >>), 3),
   toHost |-> FALSE,
   toEquipment |-> TRUE,
   hasReply |-> FALSE,
   isReplyRequired |-> FALSE,
   isMultiBlock |-> TRUE]

SecsS12F15 ==
  [name |-> "SecsS12F15",
   stream |-> 12,
   function |-> 15,
   formatDescriptor |->
      SecsVarList(OrderedDict(<<
        <<"MID", SecsVarString(16)>>,
        <<"IDTYP", SecsVarBinary(1)>>
      >>), 2),
   toHost |-> TRUE,
   toEquipment |-> FALSE,
   hasReply |-> TRUE,
   isReplyRequired |-> TRUE,
   isMultiBlock |-> FALSE]

SecsS12F16 ==
  [name |-> "SecsS12F16",
   stream |-> 12,
   function |-> 16,
   formatDescriptor |->
      SecsVarList(OrderedDict(<<
        <<"MID", SecsVarString(16)>>,
        <<"IDTYP", SecsVarBinary(1)>>,
        <<"STRP", SecsVarI2(2)>>,
        <<"BINLT", SecsVarU1(NoLength)>>
      >>), 4),
   toHost |-> FALSE,
   toEquipment |-> TRUE,
   hasReply |-> FALSE,
   isReplyRequired |-> FALSE,
   isMultiBlock |-> TRUE]

SecsS12F17 ==
  [name |-> "SecsS12F17",
   stream |-> 12,
   function |-> 17,
   formatDescriptor |->
      SecsVarList(OrderedDict(<<
        <<"MID", SecsVarString(16)>>,
        <<"IDTYP", SecsVarBinary(1)>>,
        <<"SDBIN", SecsVarBinary(1)>>
      >>), 3),
   toHost |-> TRUE,
   toEquipment |-> FALSE,
   hasReply |-> TRUE,
   isReplyRequired |-> TRUE,
   isMultiBlock |-> FALSE]

SecsS12F18 ==
  [name |-> "SecsS12F18",
   stream |-> 12,
   function |-> 18,
   formatDescriptor |->
      SecsVarList(OrderedDict(<<
        <<"MID", SecsVarString(16)>>,
        <<"IDTYP", SecsVarBinary(1)>>,
        <<"DATA", SecsVarArray(SecsVarList(OrderedDict(<<
          <<"XYPOS", SecsVarI2(2)>>,
          <<"BINLT", SecsVarU1(NoLength)>>
        >>), 2))>>
      >>), 3),
   toHost |-> FALSE,
   toEquipment |-> TRUE,
   hasReply |-> FALSE,
   isReplyRequired |-> FALSE,
   isMultiBlock |-> TRUE]

SecsS12F19 ==
  [name |-> "SecsS12F19",
   stream |-> 12,
   function |-> 19,
   formatDescriptor |->
      SecsVarList(OrderedDict(<<
        <<"MAPER", SecsVarBinary(1)>>,
        <<"DATLC", SecsVarU1(1)>>
      >>), 2),
   toHost |-> TRUE,
   toEquipment |-> TRUE,
   hasReply |-> FALSE,
   isReplyRequired |-> FALSE,
   isMultiBlock |-> FALSE]

\* SecsS14F00 with a mistyped _stream
SecsS14F00_Stream140 ==
  [name |-> "SecsS14F00",
   stream |-> 140,
   function |-> 0,
   formatDescriptor |->
      None,
   toHost |-> TRUE,
   toEquipment |-> TRUE,
   hasReply |-> FALSE,
   isReplyRequired |-> FALSE,
   isMultiBlock |-> FALSE]

SecsS14F00 ==
  [name |-> "SecsS14F00",
   stream |-> 14,
   function |-> 0,
   formatDescriptor |->
      None,
   toHost |-> TRUE,
   toEquipment |-> TRUE,
   hasReply |-> FALSE,
   isReplyRequired |-> FALSE,
   isMultiBlock |-> FALSE]

\* S14F1 whose filter list names two of its three fields ATTRID
SecsS14F01_RepeatedName ==
  [name |-> "SecsS14F01",
   stream |-> 14,
   function |-> 1,
   formatDescriptor |->
      SecsVarList(OrderedDict(<<
        <<"OBJSPEC", SecsVarString(NoLength)>>,
        <<"OBJTYPE", SecsVarDynamic(<<"SecsVarString", "SecsVarU1", "SecsVarU2", "SecsVarU4", "SecsVarU8">>)>>,
        <<"OBJID", SecsVarArray(SecsVarDynamic(<<"SecsVarString", "SecsVarU1", "SecsVarU2", "SecsVarU4", "SecsVarU8">>))>>,
        <<"FILTER", SecsVarArray(SecsVarList(OrderedDict(<<
          <<"ATTRID", SecsVarDynamic(<<"SecsVarString", "SecsVarU1", "SecsVarU2", "SecsVarU4", "SecsVarU8">>)>>,
          <<"ATTRID", SecsVarDynamic(<<>>)>>,
          <<"ATTRRELN", SecsVarU1(1)>>
        >>), 3))>>,
        <<"ATTRID", SecsVarArray(SecsVarDynamic(<<"SecsVarString", "SecsVarU1", "SecsVarU2", "SecsVarU4", "SecsVarU8">>))>>
      >>), 5),
   toHost |-> TRUE,
   toEquipment |-> TRUE,
   hasReply |-> TRUE,
   isReplyRequired |-> TRUE,
   isMultiBlock |-> FALSE]

SecsS14F01 ==
  [name |-> "SecsS14F01",
   stream |-> 14,
   function |-> 1,
   formatDescriptor |->
      SecsVarList(OrderedDict(<<
        <<"OBJSPEC", SecsVarString(NoLength)>>,
        <<"OBJTYPE", SecsVarDynamic(<<"SecsVarString", "SecsVarU1", "SecsVarU2", "SecsVarU4", "SecsVarU8">>)>>,
        <<"OBJID", SecsVarArray(SecsVarDynamic(<<"SecsVarString", "SecsVarU1", "SecsVarU2", "SecsVarU4", "SecsVarU8">>))>>,
        <<"FILTER", SecsVarArray(SecsVarList(OrderedDict(<<
          <<"ATTRID", SecsVarDynamic(<<"SecsVarString", "SecsVarU1", "SecsVarU2", "SecsVarU4", "SecsVarU8">>)>>,
          <<"ATTRDATA", SecsVarDynamic(<<>>)>>,
          <<"ATTRRELN", SecsVarU1(1)>>
        >>), 3))>>,
        <<"ATTRID", SecsVarArray(SecsVarDynamic(<<"SecsVarString", "SecsVarU1", "SecsVarU2", "SecsVarU4", "SecsVarU8">>))>>
      >>), 5),
   toHost |-> TRUE,
   toEquipment |-> TRUE,
   hasReply |-> TRUE,
   isReplyRequired |-> TRUE,
   isMultiBlock |-> FALSE]

SecsS14F02 ==
  [name |-> "SecsS14F02",
   stream |-> 14,
   function |-> 2,
   formatDescriptor |->
      SecsVarList(OrderedDict(<<
        <<"DATA", SecsVarArray(SecsVarList(OrderedDict(<<
          <<"OBJID", SecsVarDynamic(<<"SecsVarString", "SecsVarU1", "SecsVarU2", "SecsVarU4", "SecsVarU8">>)>>,
          <<"ATTRIBS", SecsVarArray(SecsVarList(OrderedDict(<<
            <<"ATTRID", SecsVarDynamic(<<"SecsVarString", "SecsVarU1", "SecsVarU2", "SecsVarU4", "SecsVarU8">>)>>,
            <<"ATTRDATA", SecsVarDynamic(<<>>)>>
          >>), 2))>>
        >>), 2))>>,
        <<"ERRORS", SecsVarList(OrderedDict(<<
          <<"OBJACK", SecsVarU1(1)>>,
          <<"ERROR", SecsVarArray(SecsVarList(OrderedDict(<<
            <<"ERRCODE", SecsVarDynamic(<<"SecsVarU1", "SecsVarU2", "SecsVarU4", "SecsVarU8">>)>>,
            <<"ERRTEXT", SecsVarString(NoLength)>>
          >>), 2))>>
        >>), 2)>>
      >>), 2),
   toHost |-> TRUE,
   toEquipment |-> TRUE,
   hasReply |-> FALSE,
   isReplyRequired |-> FALSE,
   isMultiBlock |-> TRUE]

SecsS14F03 ==
  [name |-> "SecsS14F03",
   stream |-> 14,
   function |-> 3,
   formatDescriptor |->
      SecsVarList(OrderedDict(<<
        <<"OBJSPEC", SecsVarString(NoLength)>>,
        <<"OBJTYPE", SecsVarDynamic(<<"SecsVarString", "SecsVarU1", "SecsVarU2", "SecsVarU4", "SecsVarU8">>)>>,
        <<"OBJID", SecsVarArray(SecsVarDynamic(<<"SecsVarString", "SecsVarU1", "SecsVarU2", "SecsVarU4", "SecsVarU8">>))>>,
        <<"ATTRIBS", SecsVarArray(SecsVarList(OrderedDict(<<
          <<"ATTRID", SecsVarDynamic(<<"SecsVarString", "SecsVarU1", "SecsVarU2", "SecsVarU4", "SecsVarU8">>)>>,
          <<"ATTRDATA", SecsVarDynamic(<<>>)>>
        >>), 2))>>
      >>), 4),
   toHost |-> TRUE,
   toEquipment |-> TRUE,
   hasReply |-> TRUE,
   isReplyRequired |-> TRUE,
   isMultiBlock |-> FALSE]

SecsS14F04 ==
  [name |-> "SecsS14F04",
   stream |-> 14,
   function |-> 4,
   formatDescriptor |->
      SecsVarList(OrderedDict(<<
        <<"DATA", SecsVarArray(SecsVarList(OrderedDict(<<
          <<"OBJID", SecsVarDynamic(<<"SecsVarString", "SecsVarU1", "SecsVarU2", "SecsVarU4", "SecsVarU8">>)>>,
          <<"ATTRIBS", SecsVarArray(SecsVarList(OrderedDict(<<
            <<"ATTRID", SecsVarDynamic(<<"SecsVarString", "SecsVarU1", "SecsVarU2", "SecsVarU4", "SecsVarU8">>)>>,
            <<"ATTRDATA", SecsVarDynamic(<<>>)>>
          >>), 2))>>
        >>), 2))>>,
        <<"ERRORS", SecsVarList(OrderedDict(<<
          <<"OBJACK", SecsVarU1(1)>>,
          <<"ERROR", SecsVarArray(SecsVarList(OrderedDict(<<
            <<"ERRCODE", SecsVarDynamic(<<"SecsVarU1", "SecsVarU2", "SecsVarU4", "SecsVarU8">>)>>,
            <<"ERRTEXT", SecsVarString(NoLength)>>
          >>), 2))>>
        >>), 2)>>
      >>), 2),
   toHost |-> TRUE,
   toEquipment |-> TRUE,
   hasReply |-> FALSE,
   isReplyRequired |-> FALSE,
   isMultiBlock |-> TRUE]

(***************************************************************************)
(* The catalog: secsStreamsFunctions = { stream: { function: class } }.    *)
(***************************************************************************)

\* the dictionary display with S7F1 also written under function 0
secsStreamsFunctionsDisplay_S07F01Twice ==
  <<
    <<0, <<
      <<0, SecsS00F00>>
    >> >>,
    <<1, <<
      <<0, SecsS01F00>>,
      <<1, SecsS01F01>>,
      <<2, SecsS01F02>>,
      <<3, SecsS01F03>>,
      <<4, SecsS01F04>>,
      <<11, SecsS01F11>>,
      <<12, SecsS01F12>>,
      <<13, SecsS01F13>>,
      <<14, SecsS01F14>>,
      <<15, SecsS01F15>>,
      <<16, SecsS01F16>>,
      <<17, SecsS01F17>>,
      <<18, SecsS01F18>>
    >> >>,
    <<2, <<
      <<0, SecsS02F00>>,
      <<13, SecsS02F13>>,
      <<14, SecsS02F14>>,
      <<15, SecsS02F15>>,
      <<16, SecsS02F16>>,
      <<17, SecsS02F17>>,
      <<18, SecsS02F18>>,
      <<29, SecsS02F29>>,
      <<30, SecsS02F30>>,
      <<33, SecsS02F33>>,
      <<34, SecsS02F34>>,
      <<35, SecsS02F35>>,
      <<36, SecsS02F36>>,
      <<37, SecsS02F37>>,
      <<38, SecsS02F38>>,
      <<41, SecsS02F41>>,
      <<42, SecsS02F42>>
    >> >>,
    <<5, <<
      <<0, SecsS05F00>>,
      <<1, SecsS05F01>>,
      <<2, SecsS05F02>>
    >> >>,
    <<6, <<
      <<0, SecsS06F00>>,
      <<5, SecsS06F05>>,
      <<6, SecsS06F06>>,
      <<7, SecsS06F07>>,
      <<8, SecsS06F08>>,
      <<11, SecsS06F11>>,
      <<12, SecsS06F12>>,
      <<15, SecsS06F15>>,
      <<16, SecsS06F16>>,
      <<19, SecsS06F19>>,
      <<20, SecsS06F20>>,
      <<21, SecsS06F21>>,
      <<22, SecsS06F22>>
    >> >>,
    <<7, <<
      <<0, SecsS07F01>>,
      <<1, SecsS07F01>>,
      <<2, SecsS07F02>>,
      <<3, SecsS07F03>>,
      <<4, SecsS07F04>>,
      <<5, SecsS07F05>>,
      <<6, SecsS07F06>>,
      <<17, SecsS07F17>>,
      <<18, SecsS07F18>>,
      <<19, SecsS07F19>>,
      <<20, SecsS07F20>>
    >> >>,
    <<9, <<
      <<0, SecsS09F00>>,
      <<1, SecsS09F01>>,
      <<3, SecsS09F03>>,
      <<5, SecsS09F05>>,
      <<7, SecsS09F07>>,
      <<9, SecsS09F09>>,
      <<11, SecsS09F11>>,
      <<13, SecsS09F13>>
    >> >>,
    <<10, <<
      <<0, SecsS10F00>>,
      <<1, SecsS10F01>>,
      <<2, SecsS10F02>>,
      <<3, SecsS10F03>>,
      <<4, SecsS10F04>>
    >> >>,
    <<12, <<
      <<0, SecsS12F00>>,
      <<1, SecsS12F01>>,
      <<2, SecsS12F02>>,
      <<3, SecsS12F03>>,
      <<4, SecsS12F04>>,
      <<5, SecsS12F05>>,
      <<6, SecsS12F06>>,
      <<7, SecsS12F07>>,
      <<8, SecsS12F08>>,
      <<9, SecsS12F09>>,
      <<10, SecsS12F10>>,
      <<11, SecsS12F11>>,
      <<12, SecsS12F12>>,
      <<13, SecsS12F13>>,
      <<14, SecsS12F14>>,
      <<15, SecsS12F15>>,
      <<16, SecsS12F16>>,
      <<17, SecsS12F17>>,
      <<18, SecsS12F18>>,
      <<19, SecsS12F19>>
    >> >>,
    <<14, <<
      <<0, SecsS14F00>>,
      <<1, SecsS14F01>>,
      <<2, SecsS14F02>>,
      <<3, SecsS14F03>>,
      <<4, SecsS14F04>>
    >> >>
  >>

\* the dictionary display as written, in source order
secsStreamsFunctionsDisplay ==
  <<
    <<0, <<
      <<0, SecsS00F00>>
    >> >>,
    <<1, <<
      <<0, SecsS01F00>>,
      <<1, SecsS01F01>>,
      <<2, SecsS01F02>>,
      <<3, SecsS01F03>>,
      <<4, SecsS01F04>>,
      <<11, SecsS01F11>>,
      <<12, SecsS01F12>>,
      <<13, SecsS01F13>>,
      <<14, SecsS01F14>>,
      <<15, SecsS01F15>>,
      <<16, SecsS01F16>>,
      <<17, SecsS01F17>>,
      <<18, SecsS01F18>>
    >> >>,
    <<2, <<
      <<0, SecsS02F00>>,
      <<13, SecsS02F13>>,
      <<14, SecsS02F14>>,
      <<15, SecsS02F15>>,
      <<16, SecsS02F16>>,
      <<17, SecsS02F17>>,
      <<18, SecsS02F18>>,
      <<29, SecsS02F29>>,
      <<30, SecsS02F30>>,
      <<33, SecsS02F33>>,
      <<34, SecsS02F34>>,
      <<35, SecsS02F35>>,
      <<36, SecsS02F36>>,
      <<37, SecsS02F37>>,
      <<38, SecsS02F38>>,
      <<41, SecsS02F41>>,
      <<42, SecsS02F42>>
    >> >>,
    <<5, <<
      <<0, SecsS05F00>>,
      <<1, SecsS05F01>>,
      <<2, SecsS05F02>>
    >> >>,
    <<6, <<
      <<0, SecsS06F00>>,
      <<5, SecsS06F05>>,
      <<6, SecsS06F06>>,
      <<7, SecsS06F07>>,
      <<8, SecsS06F08>>,
      <<11, SecsS06F11>>,
      <<12, SecsS06F12>>,
      <<15, SecsS06F15>>,
      <<16, SecsS06F16>>,
      <<19, SecsS06F19>>,
      <<20, SecsS06F20>>,
      <<21, SecsS06F21>>,
      <<22, SecsS06F22>>
    >> >>,
    <<7, <<
      <<1, SecsS07F01>>,
      <<2, SecsS07F02>>,
      <<3, SecsS07F03>>,
      <<4, SecsS07F04>>,
      <<5, SecsS07F05>>,
      <<6, SecsS07F06>>,
      <<17, SecsS07F17>>,
      <<18, SecsS07F18>>,
      <<19, SecsS07F19>>,
      <<20, SecsS07F20>>
    >> >>,
    <<9, <<
      <<0, SecsS09F00>>,
      <<1, SecsS09F01>>,
      <<3, SecsS09F03>>,
      <<5, SecsS09F05>>,
      <<7, SecsS09F07>>,
      <<9, SecsS09F09>>,
      <<11, SecsS09F11>>,
      <<13, SecsS09F13>>
    >> >>,
    <<10, <<
      <<0, SecsS10F00>>,
      <<1, SecsS10F01>>,
      <<2, SecsS10F02>>,
      <<3, SecsS10F03>>,
      <<4, SecsS10F04>>
    >> >>,
    <<12, <<
      <<0, SecsS12F00>>,
      <<1, SecsS12F01>>,
      <<2, SecsS12F02>>,
      <<3, SecsS12F03>>,
      <<4, SecsS12F04>>,
      <<5, SecsS12F05>>,
      <<6, SecsS12F06>>,
      <<7, SecsS12F07>>,
      <<8, SecsS12F08>>,
      <<9, SecsS12F09>>,
      <<10, SecsS12F10>>,
      <<11, SecsS12F11>>,
      <<12, SecsS12F12>>,
      <<13, SecsS12F13>>,
      <<14, SecsS12F14>>,
      <<15, SecsS12F15>>,
      <<16, SecsS12F16>>,
      <<17, SecsS12F17>>,
      <<18, SecsS12F18>>,
      <<19, SecsS12F19>>
    >> >>,
    <<14, <<
      <<0, SecsS14F00>>,
      <<1, SecsS14F01>>,
      <<2, SecsS14F02>>,
      <<3, SecsS14F03>>,
      <<4, SecsS14F04>>
    >> >>
  >>

\* the dictionary the name secsStreamsFunctions is bound to after import:
\* stream -> (function -> message type)
secsStreamsFunctions ==
  Dict([i \in DOMAIN secsStreamsFunctionsDisplay |->
          <<secsStreamsFunctionsDisplay[i][1], Dict(secsStreamsFunctionsDisplay[i][2])>>])

(***************************************************************************)
(* Application values, as the caller passes them.                          *)
(***************************************************************************)

PyNone == [py |-> "none", v |-> 0]

PyInt(n) == [py |-> "int", v |-> n]

\* a floating point number, as the bit pattern of its 4 byte IEEE-754 form
PyFloat(bits) == [py |-> "float", v |-> bits]

\* text, as the sequence of its character codes
PyStr(chars) == [py |-> "str", v |-> chars]

PyList(items) == [py |-> "list", v |-> items]

\* a mapping, as its (name, value) pairs in insertion order
PyDict(pairs) == [py |-> "dict", v |-> pairs]

(***************************************************************************)
(* Scalar codec (spec 4.1 and 6).                                          *)
(***************************************************************************)

\* the format codes of the wire format, bits 7-2 of the header byte
FormatCode ==
  [List |-> 0, SecsVarBinary |-> 8, SecsVarBoolean |-> 9, SecsVarString |-> 16,
   SecsVarI8 |-> 24, SecsVarI1 |-> 25, SecsVarI2 |-> 26, SecsVarI4 |-> 28,
   SecsVarF8 |-> 32, SecsVarF4 |-> 36,
   SecsVarU8 |-> 40, SecsVarU1 |-> 41, SecsVarU2 |-> 42, SecsVarU4 |-> 44]

\* the scalar types, narrowest first
ScalarTypes ==
  <<"SecsVarBinary", "SecsVarBoolean", "SecsVarString",
    "SecsVarU1", "SecsVarI1", "SecsVarU2", "SecsVarI2",
    "SecsVarU4", "SecsVarI4", "SecsVarF4",
    "SecsVarU8", "SecsVarI8", "SecsVarF8">>

FloatTypes == {"SecsVarF4", "SecsVarF8"}

IntegerTypes ==
  {"SecsVarU1", "SecsVarU2", "SecsVarU4", "SecsVarU8",
   "SecsVarI1", "SecsVarI2", "SecsVarI4", "SecsVarI8"}

\* bytes per element
Width ==
  [SecsVarBinary |-> 1, SecsVarBoolean |-> 1, SecsVarString |-> 1,
   SecsVarU1 |-> 1, SecsVarU2 |-> 2, SecsVarU4 |-> 4, SecsVarU8 |-> 8,
   SecsVarI1 |-> 1, SecsVarI2 |-> 2, SecsVarI4 |-> 4, SecsVarI8 |-> 8,
   SecsVarF4 |-> 4, SecsVarF8 |-> 8]

Signed == {"SecsVarI1", "SecsVarI2", "SecsVarI4", "SecsVarI8"}

\* the values an element of the type can take; the 4 and 8 byte types hold
\* every number of their sign that the model can write down
InRange(type, n) ==
  CASE type = "SecsVarBoolean" -> n \in {0, 1}
    [] type = "SecsVarI1" -> -128 <= n /\ n <= 127
    [] type = "SecsVarI2" -> -32768 <= n /\ n <= 32767
    [] type \in {"SecsVarI4", "SecsVarI8"} -> TRUE
    [] Width[type] = 1 -> 0 <= n /\ n <= 255
    [] Width[type] = 2 -> 0 <= n /\ n <= 65535
    [] OTHER -> 0 <= n

RECURSIVE BigEndian(_, _)
\* the w low bytes of a number in two's complement, most significant first
BigEndian(n, w) ==
  IF w = 0 THEN <<>> ELSE Append(BigEndian(n \div 256, w - 1), n % 256)

RECURSIVE Unsigned(_)
\* the number a big-endian byte sequence stands for
Unsigned(bytes) ==
  IF bytes = <<>>
    THEN 0
    ELSE 256 * Unsigned(SubSeq(bytes, 1, Len(bytes) - 1)) + bytes[Len(bytes)]

\* one element read from the wire: two's complement for the signed types
ElementValue(type, bytes) ==
  IF type \in Signed /\ bytes[1] >= 128
    THEN -(Unsigned([i \in DOMAIN bytes |-> 255 - bytes[i]]) + 1)
    ELSE Unsigned(bytes)

\* the number of length bytes a length takes
LengthBytes(n) == IF n < 256 THEN 1 ELSE IF n < 65536 THEN 2 ELSE 3

\* header byte and length bytes of an item
Header(code, length) ==
  <<code * 4 + LengthBytes(length)>> \o BigEndian(length, LengthBytes(length))

RECURSIVE Flatten(_)
\* the concatenation of a sequence of byte sequences
Flatten(seqs) ==
  IF seqs = <<>> THEN <<>> ELSE Head(seqs) \o Flatten(Tail(seqs))

(***************************************************************************)
(* DataItem trees: build, encode, decode (spec 4.1 - 4.4).                 *)
(***************************************************************************)

\* a failed build, encode or decode
Error(name) == [kind |-> "Error", value |-> name]

IsError(t) == t.kind = "Error"

\* the first error among the items of a sequence of trees, if any
FirstError(trees) ==
  LET bad == {i \in DOMAIN trees : IsError(trees[i])}
  IN trees[CHOOSE i \in bad : \A j \in bad : i <= j]

\* a scalar item holding the elements
Scalar(type, elements) == [kind |-> type, value |-> elements]

\* the length constraint of a scalar descriptor admits the element count
LengthOk(d, count) ==
  \/ d.length = NoLength
  \/ IF d.kind \in {"SecsVarString", "SecsVarBinary"}
       THEN count <= d.length
       ELSE count = d.length

\* Scalar construction: a number or a list of numbers for the numeric types,
\* text for ASCII
BuildScalar(d, v) ==
  LET elements == IF v.py = "list" THEN [i \in DOMAIN v.v |-> v.v[i].v] ELSE
                  IF v.py = "str" THEN v.v ELSE <<v.v>>
      shapeOk == IF d.kind = "SecsVarString"
                   THEN v.py = "str"
                   ELSE IF d.kind \in FloatTypes
                   THEN v.py = "float"
                   ELSE \/ v.py = "int"
                        \/ v.py = "list" /\ \A i \in DOMAIN v.v : v.v[i].py = "int"
  IN IF ~shapeOk THEN Error("StructureError")
     ELSE IF \E i \in DOMAIN elements : ~InRange(d.kind, elements[i])
            THEN Error("ValueRangeError")
     ELSE IF ~LengthOk(d, Len(elements)) THEN Error("StructureError")
     ELSE Scalar(d.kind, elements)

\* the permitted types that can hold the value; an empty whitelist permits
\* every scalar type
Candidates(d, v) ==
  LET fits(type) ==
        IF v.py = "str" THEN type = "SecsVarString"
        ELSE IF v.py = "int" THEN type \in IntegerTypes /\ InRange(type, v.v)
        ELSE IF v.py = "float" THEN type \in FloatTypes
        ELSE FALSE
  IN SelectSeq(IF d.types = <<>> THEN ScalarTypes ELSE d.types, fits)

\* the narrowest candidate; among equally narrow ones a signed type goes
\* before an unsigned one, whatever the order of the whitelist (S6F5: 1337 is
\* <I2 1337> under [U1, U2, U4, U8, I1, I2, I4, I8]), and then the first of
\* the list
Narrowest(types) ==
  LET rank(i) == IF types[i] \in Signed THEN 0 ELSE 1
  IN types[CHOOSE i \in DOMAIN types :
             \A j \in DOMAIN types :
                \/ Width[types[i]] < Width[types[j]]
                \/ /\ Width[types[i]] = Width[types[j]]
                   /\ \/ rank(i) < rank(j)
                      \/ rank(i) = rank(j) /\ i <= j]

RECURSIVE build(_, _)
\* FormatDescriptor.build(value): the instance tree of an application value
build(d, v) ==
  CASE d.kind = "None" ->
         IF v = PyNone THEN [kind |-> "None", value |-> <<>>]
         ELSE Error("StructureError")
    [] d.kind = "Array" ->
         IF v = PyNone THEN [kind |-> "Array", value |-> <<>>]
         ELSE IF v.py # "list" THEN Error("StructureError")
         ELSE LET items == [i \in DOMAIN v.v |-> build(d.item, v.v[i])]
              IN IF \E i \in DOMAIN items : IsError(items[i])
                   THEN FirstError(items)
                   ELSE [kind |-> "Array", value |-> items]
    [] d.kind = "List" ->
         LET names == [i \in DOMAIN d.fields |-> d.fields[i][1]]
             named(i) == \E j \in DOMAIN v.v : v.v[j][1] = names[i]
             given(i) ==
               IF v.py = "list"
                 THEN IF i <= Len(v.v) THEN v.v[i] ELSE PyNone
               ELSE IF named(i)
                 THEN v.v[CHOOSE j \in DOMAIN v.v : v.v[j][1] = names[i]][2]
               ELSE PyNone
             \* a field a mapping does not name keeps the empty value of the
             \* descriptor, which only an Array has (S14F2: "ERRORS":
             \* {"OBJACK": 0} gives <U1 0> <L>)
             shapeOk ==
               \/ v.py = "list" /\ Len(v.v) = d.count
               \/ /\ v.py = "dict"
                  /\ \A j \in DOMAIN v.v : \E i \in DOMAIN names : v.v[j][1] = names[i]
                  /\ \A j, k \in DOMAIN v.v : v.v[j][1] = v.v[k][1] => j = k
                  /\ \A i \in DOMAIN names : named(i) \/ d.fields[i][2].kind = "Array"
         IN IF ~shapeOk THEN Error("StructureError")
            ELSE LET items == [i \in DOMAIN names |-> build(d.fields[i][2], given(i))]
                 IN IF \E i \in DOMAIN items : IsError(items[i])
                      THEN FirstError(items)
                      ELSE [kind |-> "List",
                            value |-> [i \in DOMAIN names |-> <<names[i], items[i]>>]]
    [] d.kind = "Dynamic" ->
         IF Candidates(d, v) = <<>> THEN Error("UnsupportedTypeError")
         ELSE BuildScalar([kind |-> Narrowest(Candidates(d, v)), length |-> NoLength], v)
    [] OTHER -> BuildScalar(d, v)

RECURSIVE encode(_)
\* the wire bytes of an instance tree
encode(t) ==
  CASE t.kind = "None" -> <<>>
    [] t.kind = "Array" ->
         Header(FormatCode.List, Len(t.value))
           \o Flatten([i \in DOMAIN t.value |-> encode(t.value[i])])
    [] t.kind = "List" ->
         Header(FormatCode.List, Len(t.value))
           \o Flatten([i \in DOMAIN t.value |-> encode(t.value[i][2])])
    [] OTHER ->
         Header(FormatCode[t.kind], Len(t.value) * Width[t.kind])
           \o Flatten([i \in DOMAIN t.value |-> BigEndian(t.value[i], Width[t.kind])])

\* the header of the item at the front of the bytes: format code, length and
\* the bytes after the header, or a FormatError
ReadHeader(bytes) ==
  IF bytes = <<>> THEN [ok |-> FALSE, error |-> "FormatError"]
  ELSE LET n == bytes[1] % 4
           code == bytes[1] \div 4
       IN IF n = 0 \/ Len(bytes) < 1 + n
               \/ code \notin {FormatCode[k] : k \in DOMAIN FormatCode}
            THEN [ok |-> FALSE, error |-> "FormatError"]
            ELSE [ok |-> TRUE, code |-> code,
                  length |-> Unsigned(SubSeq(bytes, 2, 1 + n)),
                  rest |-> SubSeq(bytes, 2 + n, Len(bytes))]

Failed(name) == [ok |-> FALSE, error |-> name, depth |-> 1]

\* a scalar of the type read from the payload after a header
DecodeScalar(type, d, h) ==
  IF h.length % Width[type] # 0 \/ Len(h.rest) < h.length
    THEN Failed("FormatError")
  ELSE LET count == h.length \div Width[type]
           w == Width[type]
           elements == [i \in 1..count |->
                          ElementValue(type, SubSeq(h.rest, (i - 1) * w + 1, i * w))]
       IN IF \E i \in 1..count : ~InRange(type, elements[i])
            THEN Failed("FormatError")
          ELSE IF ~LengthOk(d, count) THEN Failed("StructureError")
          ELSE [ok |-> TRUE, tree |-> Scalar(type, elements),
                rest |-> SubSeq(h.rest, h.length + 1, Len(h.rest)), depth |-> 1]

Max(a, b) == IF a >= b THEN a ELSE b

RECURSIVE decode(_, _)
RECURSIVE DecodeItems(_, _, _, _, _)
\* the children of a container, each decoded by its own descriptor, in order;
\* depth is the deepest nesting of decode calls under the container so far
DecodeItems(ds, i, bytes, done, depth) ==
  IF i > Len(ds) THEN [ok |-> TRUE, items |-> done, rest |-> bytes, depth |-> depth]
  ELSE LET r == decode(ds[i], bytes)
       IN IF ~r.ok THEN [r EXCEPT !.depth = Max(depth, r.depth)]
          ELSE DecodeItems(ds, i + 1, r.rest, Append(done, r.tree), Max(depth, r.depth))

\* FormatDescriptor.parse(bytes): the instance tree at the front of the bytes
\* and the bytes after it; depth is the nesting of decode calls it took
decode(d, bytes) ==
  IF d.kind = "None"
    THEN [ok |-> TRUE, tree |-> [kind |-> "None", value |-> <<>>], rest |-> bytes,
          depth |-> 1]
  ELSE LET h == ReadHeader(bytes)
       IN IF ~h.ok THEN Failed(h.error)
          ELSE CASE d.kind = "Array" ->
                      IF h.code # FormatCode.List THEN Failed("StructureError")
                      ELSE LET r == DecodeItems([i \in 1..h.length |-> d.item], 1, h.rest,
                                                <<>>, 0)
                           IN IF ~r.ok THEN [r EXCEPT !.depth = @ + 1]
                              ELSE [ok |-> TRUE,
                                    tree |-> [kind |-> "Array", value |-> r.items],
                                    rest |-> r.rest, depth |-> r.depth + 1]
                 [] d.kind = "List" ->
                      IF h.code # FormatCode.List \/ h.length # d.count
                        THEN Failed("StructureError")
                      ELSE LET r == DecodeItems([i \in DOMAIN d.fields |-> d.fields[i][2]],
                                                1, h.rest, <<>>, 0)
                           IN IF ~r.ok THEN [r EXCEPT !.depth = @ + 1]
                              ELSE [ok |-> TRUE,
                                    tree |-> [kind |-> "List",
                                              value |-> [i \in DOMAIN d.fields |->
                                                           <<d.fields[i][1], r.items[i]>>]],
                                    rest |-> r.rest, depth |-> r.depth + 1]
                 [] d.kind = "Dynamic" ->
                      LET match == {k \in DOMAIN Width : FormatCode[k] = h.code}
                      IN IF h.code = FormatCode.List
                           THEN IF d.types # <<>> THEN Failed("UnsupportedTypeError")
                                ELSE decode(SecsVarArray(d), bytes)
                         ELSE LET type == CHOOSE k \in match : TRUE
                              IN IF d.types # <<>>
                                      /\ \A i \in DOMAIN d.types : d.types[i] # type
                                   THEN Failed("UnsupportedTypeError")
                                 ELSE DecodeScalar(type, [kind |-> type, length |-> NoLength], h)
                 [] OTHER ->
                      IF h.code # FormatCode[d.kind] THEN Failed("StructureError")
                      ELSE DecodeScalar(d.kind, d, h)

\* decodeMessage: the instance tree of a whole message body, or the error
parse(d, bytes) ==
  LET r == decode(d, bytes)
  IN IF ~r.ok THEN Error(r.error)
     ELSE IF r.rest # <<>> THEN Error("FormatError")
     ELSE r.tree

(***************************************************************************)
(* State.                                                                  *)
(***************************************************************************)
VARIABLES
  catalog,     \* the module global secsStreamsFunctions
  op,          \* the catalog operation in progress: "none", "lookup", "register"
  request,     \* the (stream, function) header of that operation
  response,    \* what the operation gave back
  calls,       \* the encode and decode calls in progress, one per caller
  trees        \* the DataItem tree each call owns

vars == <<catalog, op, request, response, calls, trees>>

\* the explicit marker of a header that is not in the catalog
Unknown == [name |-> "unknown"]

DuplicateRegistrationError == [name |-> "DuplicateRegistrationError"]

NoRequest == <<-1, -1>>

NoResponse == [raised |-> FALSE, value |-> [name |-> "none"]]

\* the number of callers that encode and decode at the same time
NumCalls == 2

Calls == 1..NumCalls

\* no DataItem tree
NoTree == [kind |-> "NoTree", value |-> <<>>]

\* a caller that is between two calls
Idle ==
  [pc |-> "idle", kind |-> "none", header |-> NoRequest,
   value |-> PyNone, wire |-> <<>>, result |-> NoTree]

\* the (stream, function) pair is bound in the dictionary
Bound(cat, stream, function) ==
  stream \in DOMAIN cat /\ function \in DOMAIN cat[stream]

\* Catalog.lookup(stream, function): the message type, or the unknown marker
lookup(cat, stream, function) ==
  IF stream \notin DOMAIN cat
    THEN [raised |-> FALSE, value |-> Unknown]
    ELSE IF function \notin DOMAIN cat[stream]
           THEN [raised |-> FALSE, value |-> Unknown]
           ELSE [raised |-> FALSE, value |-> cat[stream][function]]

\* the dictionary with one more binding
Bind(cat, stream, function, m) ==
  IF stream \in DOMAIN cat
    THEN [cat EXCEPT ![stream] = (function :> m) @@ cat[stream]]
    ELSE (stream :> (function :> m)) @@ cat

\* a register that rebinds a bound pair without complaint
register_Overwrite(cat, stream, function, m) ==
  [catalog |-> Bind(cat, stream, function, m),
   response |-> [raised |-> FALSE, value |-> m]]

\* Catalog.register(stream, function, m): DuplicateRegistrationError when the
\* pair is bound, the new binding otherwise
register(cat, stream, function, m) ==
  IF Bound(cat, stream, function)
    THEN [catalog |-> cat,
          response |-> [raised |-> TRUE, value |-> DuplicateRegistrationError]]
    ELSE [catalog |-> Bind(cat, stream, function, m),
          response |-> [raised |-> FALSE, value |-> m]]

\* a caller resolves a header; the next call starts when this one returned
Lookup(stream, function) ==
  /\ op = "none"
  /\ op' = "lookup"
  /\ request' = <<stream, function>>
  /\ response' = lookup(catalog, stream, function)
  /\ UNCHANGED <<catalog, calls, trees>>

\* configuration code binds a message type to a header
Register(stream, function, m) ==
  /\ op = "none"
  /\ op' = "register"
  /\ request' = <<stream, function>>
  /\ LET r == register(catalog, stream, function, m)
     IN /\ catalog' = r.catalog
        /\ response' = r.response
  /\ UNCHANGED <<calls, trees>>

\* the caller has taken the response
Return ==
  /\ op # "none"
  /\ op' = "none"
  /\ request' = NoRequest
  /\ response' = NoResponse
  /\ UNCHANGED <<catalog, calls, trees>>

Init ==
  /\ catalog = secsStreamsFunctions
  /\ op = "none"
  /\ request = NoRequest
  /\ response = NoResponse
  /\ calls = [c \in Calls |-> Idle]
  /\ trees = [c \in Calls |-> NoTree]

\* the headers a caller can ask for
Headers == (0..MaxStream) \X (0..MaxFunction)

Next ==
  \/ /\ op = "none"
     /\ \E header \in Headers : Lookup(header[1], header[2])
  \/ Return

Spec == Init /\ [][Next]_vars

\* the headers configuration code registers: bound ones and free ones
RegisterHeaders == {<<1, 1>>, <<1, 5>>, <<3, 1>>, <<7, 0>>, <<9, 13>>, <<14, 4>>}

\* the message types configuration code registers
RegisterTypes == {SecsS01F01, SecsS07F00, SecsS09F13}

NextRegister ==
  \/ /\ op = "none"
     /\ \E header \in RegisterHeaders, m \in RegisterTypes :
           Register(header[1], header[2], m)
  \/ /\ op = "none"
     /\ \E header \in RegisterHeaders : Lookup(header[1], header[2])
  \/ Return

\* startup configuration: registrations on top of the built-in dictionary
SpecRegister == Init /\ [][NextRegister]_vars

(***************************************************************************)
(* Encode and decode calls (spec 5 and 6).  An encode call constructs the  *)
(* message from an application value and then serialises it; a decode call *)
(* parses the bytes into a tree and then hands the tree to the caller.     *)
(***************************************************************************)

\* a tree shared by all calls: every caller works on the last tree made
NewTree_Shared(heap, c, tree) == [x \in DOMAIN heap |-> tree]

\* the DataItem tree a call creates belongs to that call alone
NewTree(heap, c, tree) == [heap EXCEPT ![c] = tree]

\* a constructor that fills the class-level descriptor in place
construct_InPlace(cat, header, value) ==
  LET tree == build(cat[header[1]][header[2]].formatDescriptor, value)
  IN [catalog |-> [cat EXCEPT ![header[1]][header[2]].formatDescriptor = tree],
      tree |-> tree]

\* the construction of a message of a registered type from a value: the
\* tree is built from the descriptor, which is only read
construct(cat, header, value) ==
  [catalog |-> cat,
   tree |-> build(cat[header[1]][header[2]].formatDescriptor, value)]

\* encodeMessage, first half: resolve the header and build the tree
Build(c, header, value) ==
  /\ calls[c].pc = "idle"
  /\ IF ~Bound(catalog, header[1], header[2])
       THEN /\ calls' = [calls EXCEPT ![c] =
                          [Idle EXCEPT !.pc = "failed", !.kind = "encode",
                                       !.header = header, !.value = value,
                                       !.result = Error("UnknownMessageError")]]
            /\ UNCHANGED <<catalog, trees>>
       ELSE LET r == construct(catalog, header, value)
            IN /\ catalog' = r.catalog
               /\ IF IsError(r.tree)
                    THEN /\ calls' = [calls EXCEPT ![c] =
                                       [Idle EXCEPT !.pc = "failed", !.kind = "encode",
                                                    !.header = header, !.value = value,
                                                    !.result = r.tree]]
                         /\ UNCHANGED trees
                    ELSE /\ calls' = [calls EXCEPT ![c] =
                                       [Idle EXCEPT !.pc = "built", !.kind = "encode",
                                                    !.header = header, !.value = value]]
                         /\ trees' = NewTree(trees, c, r.tree)
  /\ UNCHANGED <<op, request, response>>

\* encodeMessage, second half: serialise the tree of the call
Encode(c) ==
  /\ calls[c].pc = "built"
  /\ calls' = [calls EXCEPT ![c].pc = "done", ![c].wire = encode(trees[c])]
  /\ UNCHANGED <<catalog, op, request, response, trees>>

\* decodeMessage, first half: resolve the header and parse the bytes
Decode(c, header, bytes) ==
  /\ calls[c].pc = "idle"
  /\ IF ~Bound(catalog, header[1], header[2])
       THEN /\ calls' = [calls EXCEPT ![c] =
                          [Idle EXCEPT !.pc = "failed", !.kind = "decode",
                                       !.header = header, !.wire = bytes,
                                       !.result = Error("UnknownMessageError")]]
            /\ UNCHANGED trees
       ELSE LET tree == parse(catalog[header[1]][header[2]].formatDescriptor, bytes)
            IN IF IsError(tree)
                 THEN /\ calls' = [calls EXCEPT ![c] =
                                    [Idle EXCEPT !.pc = "failed", !.kind = "decode",
                                                 !.header = header, !.wire = bytes,
                                                 !.result = tree]]
                      /\ UNCHANGED trees
                 ELSE /\ calls' = [calls EXCEPT ![c] =
                                    [Idle EXCEPT !.pc = "parsed", !.kind = "decode",
                                                 !.header = header, !.wire = bytes]]
                      /\ trees' = NewTree(trees, c, tree)
  /\ UNCHANGED <<catalog, op, request, response>>

\* decodeMessage, second half: hand the tree of the call to the caller
Deliver(c) ==
  /\ calls[c].pc = "parsed"
  /\ calls' = [calls EXCEPT ![c].pc = "done", ![c].result = trees[c]]
  /\ UNCHANGED <<catalog, op, request, response, trees>>

\* the caller drops the message; its tree goes with it
Finish(c) ==
  /\ calls[c].pc \in {"done", "failed"}
  /\ calls' = [calls EXCEPT ![c] = Idle]
  /\ trees' = [trees EXCEPT ![c] = NoTree]
  /\ UNCHANGED <<catalog, op, request, response>>

\* the headers the callers encode and decode: S1F2, S2F15, S6F7 and an
\* unregistered one
CodecHeaders == {<<1, 2>>, <<2, 15>>, <<6, 7>>, <<3, 1>>}

\* the application values a caller passes for a header, good and bad
CodecValues(header) ==
  CASE header = <<1, 2>> ->
         {PyList(<<>>), PyList(<<PyStr(<<97, 98>>)>>), PyList(<<PyInt(1)>>)}
    [] header = <<2, 15>> ->
         {PyList(<<PyDict(<< <<"ECV", PyStr(<<116, 101, 120, 116>>)>>, <<"ECID", PyInt(1)>> >>)>>),
          PyList(<<PyList(<<PyInt(1337), PyInt(5)>>)>>),
          PyList(<<PyList(<<PyInt(1)>>)>>)}
    [] header = <<6, 7>> -> {PyInt(7), PyInt(-1)}
    [] OTHER -> {PyNone}

\* the byte sequences a caller receives for a header: the encodings of the
\* good values, the same with the last byte lost, and an item of another format
CodecWires(header) ==
  IF ~Bound(secsStreamsFunctions, header[1], header[2])
    THEN {<<>>}
    ELSE LET d == secsStreamsFunctions[header[1]][header[2]].formatDescriptor
             good == {encode(build(d, v)) :
                        v \in {x \in CodecValues(header) : ~IsError(build(d, x))}}
         IN good \cup {SubSeq(w, 1, Len(w) - 1) : w \in good} \cup {<<37, 1, 1>>}

NextCodec ==
  \/ \E c \in Calls, header \in CodecHeaders :
        \E value \in CodecValues(header) : Build(c, header, value)
  \/ \E c \in Calls : Encode(c)
  \/ \E c \in Calls, header \in CodecHeaders :
        \E bytes \in CodecWires(header) : Decode(c, header, bytes)
  \/ \E c \in Calls : Deliver(c)
  \/ \E c \in Calls : Finish(c)

\* callers that encode and decode concurrently after startup
SpecCodec == Init /\ [][NextCodec]_vars

(***************************************************************************)
(* One caller that encodes values and decodes byte sequences of every      *)
(* registered message type, and a peer that sends the bytes of an encoded  *)
(* message back.                                                           *)
(***************************************************************************)

\* the caller of the item codec: the first one
Caller == CHOOSE c \in Calls : \A other \in Calls : c <= other

\* the sample values of a descriptor are numbered 0..MaxSample
MaxSample == 2

\* the deepest nesting of lists a received byte sequence has
MaxNest == 3

\* a number the integer type can hold, different for different k
SampleNumber(type, k) ==
  CASE type = "SecsVarBoolean" -> k % 2
    [] type = "SecsVarBinary" -> (50 * k) % 256
    [] type = "SecsVarU1" -> (100 * k) % 256
    [] type = "SecsVarI1" -> -((5 * k) % 128)
    [] type = "SecsVarU2" -> (1337 * k) % 65536
    [] type = "SecsVarI2" -> -((1337 * k) % 32768)
    [] type \in {"SecsVarU4", "SecsVarU8"} -> 70000 * k
    [] OTHER -> -(70000 * k)

\* the text "ab..." of n letters
SampleText(n) == PyStr([i \in 1..n |-> 96 + i])

\* 3.14 as a 4 byte float: 0x4048F5C3
Pi == PyFloat(1078523331)

RECURSIVE Sample(_, _)
\* the k-th sample value of a descriptor: empty containers and texts for
\* k = 0, k elements otherwise; Lists by position for odd k and by name, last
\* field first, for even k; the k-th permitted type for a Dynamic
Sample(d, k) ==
  CASE d.kind = "None" -> PyNone
    [] d.kind = "Array" ->
         PyList([i \in 1..k |-> Sample(d.item, IF i = 1 THEN k ELSE 1)])
    [] d.kind = "List" ->
         LET n == Len(d.fields)
         IN IF k % 2 = 1
              THEN PyList([i \in 1..n |-> Sample(d.fields[i][2], k)])
              ELSE PyDict([i \in 1..n |->
                             <<d.fields[n + 1 - i][1], Sample(d.fields[n + 1 - i][2], k)>>])
    [] d.kind = "Dynamic" ->
         LET types == IF d.types = <<>> THEN ScalarTypes ELSE d.types
             type == types[(k % Len(types)) + 1]
         IN IF type = "SecsVarString" THEN SampleText(k)
            ELSE IF type \in FloatTypes THEN Pi
            ELSE IF type \in IntegerTypes THEN PyInt(SampleNumber(type, k))
            ELSE IF d.types = <<>> THEN PyInt(k)
            ELSE Sample([d EXCEPT !.types = SelectSeq(d.types, LAMBDA t : t # type)], k)
    [] d.kind = "SecsVarString" ->
         SampleText(IF d.length # NoLength /\ d.length < k THEN d.length ELSE k)
    [] OTHER ->
         LET n == IF d.length = NoLength THEN k
                  ELSE IF d.kind = "SecsVarBinary" /\ k < d.length THEN k
                  ELSE d.length
         IN IF n = 1 THEN PyInt(SampleNumber(d.kind, k))
            ELSE PyList([i \in 1..n |-> PyInt(SampleNumber(d.kind, k + i))])

\* the headers of the built-in dictionary
ItemHeaders ==
  UNION {{<<stream, function>> : function \in DOMAIN secsStreamsFunctions[stream]} :
           stream \in DOMAIN secsStreamsFunctions}

\* the descriptor of a built-in message type
Descriptor(header) == secsStreamsFunctions[header[1]][header[2]].formatDescriptor

\* the (name, value) pairs in the order of the permutation
Permuted(pairs, order) == PyDict([i \in DOMAIN order |-> pairs[order[i]]])

\* the orders in which n fields can be named
Orders(n) == {order \in [1..n -> 1..n] : \A i, j \in 1..n : order[i] = order[j] => i = j}

\* text as in the docstrings
Text_text == PyStr(<<116, 101, 120, 116>>)

Text_data == PyStr(<<100, 97, 116, 97>>)

Text_S01E01 == PyStr(<<83, 48, 49, 69, 48, 49>>)

Text_SV1 == PyStr(<<83, 86, 49>>)

Text_mm == PyStr(<<109, 109>>)

Text_x == PyStr(<<120>>)

\* the fields of the S5F1 example (line 1424) and of the S9F13 example
\* (line 2713)
AlarmFields == << <<"ALCD", PyInt(129)>>, <<"ALID", PyInt(100)>>, <<"ALTX", Text_text>> >>

ConversationFields == << <<"MEXP", Text_S01E01>>, <<"EDID", Text_data>> >>

\* the texts of the items of a received S9F13
ConversationTexts == <<Text_S01E01, Text_data, Text_x>>

\* one S2F15 element, as a mapping (line 696)
ConstantFields == << <<"ECID", PyInt(1)>>, <<"ECV", Text_text>> >>

\* the S12F1 example (line 2963) by position, with the given NULBC
MapSetup(nulbc) ==
  PyList(<<PyStr(<<109>>), PyInt(0), PyInt(0), PyInt(0), PyInt(0), PyInt(0),
           PyList(<<PyList(<<PyInt(1), PyInt(2)>>), PyList(<<PyInt(2), PyInt(3)>>)>>),
           PyStr(<<117>>), PyInt(100), PyInt(100), PyInt(10), PyInt(10),
           nulbc, PyInt(100), PyInt(0)>>)

\* one S1F12 element, as a mapping (line 298)
StatusFields == << <<"SVID", PyInt(1)>>, <<"SVNAME", Text_SV1>>, <<"UNITS", Text_mm>> >>

\* the values of the docstring examples and their variations, per header
ExampleValues(header) ==
  CASE header \in {<<1, 2>>, <<1, 13>>} -> {PyNone}
    [] header = <<1, 3>> -> {PyList(<<PyInt(1), PyStr(<<49, 51, 51, 55>>), PyInt(12)>>)}
    [] header = <<1, 11>> -> {PyList(<<PyInt(1), PyInt(1337)>>)}
    [] header = <<1, 12>> ->
         {PyList(<<PyDict(StatusFields)>>),
          PyList(<<PyDict(SubSeq(StatusFields, 1, 2))>>),
          PyList(<<PyList(<<PyInt(1), Text_SV1>>)>>),
          PyList(<<PyList(<<PyInt(1), Text_SV1, Text_mm, Text_x>>)>>),
          PyList(<<PyDict(StatusFields \o << <<"ECV", Text_x>> >>)>>),
          PyList(<<PyDict(StatusFields), PyInt(3)>>),
          PyList(<<PyDict(StatusFields), PyList(<<PyInt(1), PyInt(2), Text_mm>>)>>)}
    [] header = <<1, 14>> ->
         {PyDict(<< <<"COMMACK", PyInt(0)>> >>),
          PyDict(<< <<"DATA", PyList(<<Text_x>>)>> >>),
          PyList(<<PyInt(0)>>)}
    [] header = <<2, 15>> ->
         {PyList(<<PyDict(ConstantFields)>>),
          PyList(<<Permuted(ConstantFields, <<2, 1>>)>>),
          PyList(<<PyList(<<PyInt(1), Text_text>>)>>)}
    [] header = <<5, 1>> ->
         {Permuted(AlarmFields, order) : order \in Orders(3)}
           \cup {PyList(<<PyInt(129), PyInt(100), Text_text>>)}
    [] header = <<6, 5>> ->
         {PyDict(<< <<"DATAID", PyInt(1)>>, <<"DATALENGTH", PyInt(1337)>> >>),
          PyDict(<< <<"DATAID", PyInt(200)>>, <<"DATALENGTH", PyInt(-129)>> >>)}
    [] header = <<6, 20>> -> {PyList(<<PyStr(<<65, 83, 68>>), PyInt(1337)>>), PyList(<<Pi>>)}
    [] header = <<9, 13>> ->
         {Permuted(ConversationFields, order) : order \in Orders(2)}
           \cup {PyList(<<Text_S01E01, Text_data>>)}
    [] header = <<12, 1>> -> {MapSetup(PyInt(5)), MapSetup(Text_x), MapSetup(Pi)}
    [] header = <<14, 2>> ->
         {PyDict(<< <<"DATA", PyList(<<>>)>>,
                    <<"ERRORS", PyDict(<< <<"OBJACK", PyInt(0)>> >>)>> >>)}
    [] OTHER -> {}

\* the application values the caller passes for a header
ItemValues(header) ==
  {Sample(Descriptor(header), k) : k \in 0..MaxSample} \cup ExampleValues(header)

\* an item of the scalar type with one element 0, or the empty list
ItemOf(type) ==
  IF type = "List" THEN Header(FormatCode.List, 0)
  ELSE Header(FormatCode[type], Width[type]) \o [i \in 1..Width[type] |-> 0]

RECURSIVE Nested(_)
\* n lists of one element, one in the other, around an empty list
Nested(n) ==
  IF n = 0 THEN Header(FormatCode.List, 0)
  ELSE Header(FormatCode.List, 1) \o Nested(n - 1)

\* the ASCII item of a text
Ascii(text) == Header(FormatCode.SecsVarString, Len(text.v)) \o text.v

\* an S14F2 message with one attribute of one object, ATTRID and ATTRDATA
\* being items of the given formats
AttributeWire(id, data) ==
  Header(FormatCode.List, 2)
    \o Header(FormatCode.List, 1)
         \o Header(FormatCode.List, 2)
              \o Ascii(Text_x)
              \o Header(FormatCode.List, 1)
                   \o Header(FormatCode.List, 2) \o ItemOf(id) \o ItemOf(data)
    \o Header(FormatCode.List, 2) \o ItemOf("SecsVarU1") \o Header(FormatCode.List, 0)

\* the byte sequences the caller receives for a header: a sample message
\* without its last byte and, for some headers, items of every format, lists
\* of every count and nested lists
ItemWires(header) ==
  LET t == build(Descriptor(header), Sample(Descriptor(header), 1))
      w == IF IsError(t) THEN <<0>> ELSE encode(t)
  IN {SubSeq(w, 1, Len(w) - 1)}
       \cup CASE header \in {<<1, 3>>, <<6, 20>>} ->
                   {Header(FormatCode.List, 1) \o ItemOf(type) : type \in DOMAIN FormatCode}
                     \cup {Nested(n) : n \in 0..MaxNest}
              [] header = <<6, 11>> ->
                   {Header(FormatCode.List, 3) \o ItemOf("SecsVarU1") \o ItemOf("SecsVarU1")
                      \o Header(FormatCode.List, 1)
                      \o Header(FormatCode.List, 2) \o ItemOf("SecsVarU1") \o Nested(n) :
                        n \in 0..MaxNest}
              [] header = <<9, 13>> ->
                   {Header(FormatCode.List, n)
                      \o Flatten([i \in 1..n |-> Ascii(ConversationTexts[i])]) :
                        n \in 0..Len(ConversationTexts)}
              [] header = <<14, 2>> ->
                   {AttributeWire(id, data) : id, data \in DOMAIN FormatCode}
              [] OTHER -> {}

\* the peer sends the bytes of an encoded message back and the caller decodes
\* them with the message type they were encoded with
RoundTrip(c) ==
  /\ calls[c].pc = "done"
  /\ calls[c].kind = "encode"
  /\ LET tree == parse(catalog[calls[c].header[1]][calls[c].header[2]].formatDescriptor,
                       calls[c].wire)
     IN IF IsError(tree)
          THEN /\ calls' = [calls EXCEPT ![c].pc = "failed", ![c].kind = "roundtrip",
                                         ![c].result = tree]
               /\ trees' = [trees EXCEPT ![c] = NoTree]
          ELSE /\ calls' = [calls EXCEPT ![c].pc = "parsed", ![c].kind = "roundtrip"]
               /\ trees' = NewTree(trees, c, tree)
  /\ UNCHANGED <<catalog, op, request, response>>

NextItems ==
  \/ \E header \in ItemHeaders : \E value \in ItemValues(header) : Build(Caller, header, value)
  \/ Encode(Caller)
  \/ RoundTrip(Caller)
  \/ \E header \in ItemHeaders : \E bytes \in ItemWires(header) : Decode(Caller, header, bytes)
  \/ Deliver(Caller)
  \/ Finish(Caller)

\* one caller working through values and byte sequences of every message type
SpecItems == Init /\ [][NextItems]_vars

(***************************************************************************)
(* Schema-time properties of descriptors.                                  *)
(***************************************************************************)

RECURSIVE HasArray(_)
\* the descriptor contains a SecsVarArray at some nesting depth
HasArray(d) ==
  CASE d.kind = "Array" -> TRUE
    [] d.kind = "List" -> \E i \in DOMAIN d.fields : HasArray(d.fields[i][2])
    [] OTHER -> FALSE

RECURSIVE HasUnbounded(_)
\* the descriptor contains a SecsVarArray, or a scalar declared without a
\* length, at some nesting depth
HasUnbounded(d) ==
  CASE d.kind = "Array" -> TRUE
    [] d.kind = "List" -> \E i \in DOMAIN d.fields : HasUnbounded(d.fields[i][2])
    [] d.kind \in {"None", "Dynamic"} -> FALSE
    [] OTHER -> d.length = NoLength

\* the (stream, function) pairs bound in the catalog
Registered ==
  UNION {{<<s, f>> : f \in DOMAIN catalog[s]} : s \in DOMAIN catalog}

\* the message type bound to a registered pair
TypeAt(p) == catalog[p[1]][p[2]]

\* the last lookup found a message type
Found == op = "lookup" /\ request \in Registered /\ response.value = TypeAt(request)

(***************************************************************************)
(* Claims.                                                                 *)
(***************************************************************************)

C2_UniqueMapping ==
  /\ \A i, j \in DOMAIN secsStreamsFunctionsDisplay :
        i # j => secsStreamsFunctionsDisplay[i][1] # secsStreamsFunctionsDisplay[j][1]
  /\ \A i \in DOMAIN secsStreamsFunctionsDisplay :
        LET inner == secsStreamsFunctionsDisplay[i][2]
        IN \A j, k \in DOMAIN inner : j # k => inner[j][1] # inner[k][1]
  /\ Cardinality({TypeAt(p).name : p \in Registered}) = Cardinality(Registered)
  /\ Found => \A p \in Registered : TypeAt(p).name = response.value.name => p = request

\* lookup of (7, 2) has found S7F2, the one message type bound to that pair
C2_Witness ==
  /\ Found
  /\ request = <<7, 2>>
  /\ response.value.name = "SecsS07F02"

\* C3: lookup of (1, 1) returns S1F1 (header-only, both directions, reply
\* expected and required); lookup of (99, 99) returns unknown without raising.
C3_LookupExamples ==
  /\ request = <<1, 1>> =>
        /\ ~response.raised
        /\ response.value.name = "SecsS01F01"
        /\ response.value.stream = 1
        /\ response.value.function = 1
        /\ response.value.formatDescriptor = None
        /\ response.value.toHost
        /\ response.value.toEquipment
        /\ response.value.hasReply
        /\ response.value.isReplyRequired
  /\ request = <<99, 99>> => ~response.raised /\ response.value = Unknown

\* (1, 1) has been looked up
C3_Witness == request = <<1, 1>> /\ response.value.name = "SecsS01F01"

\* C4: lookup of an unregistered pair in 0..127 x 0..255 returns the unknown
\* marker and never raises, when the stream is absent (stream 3) and when the
\* stream is present but the function is not ((1, 5), (7, 0)).
C4_UnregisteredIsUnknown ==
  /\ op = "lookup" /\ request \notin Registered =>
        ~response.raised /\ response.value = Unknown
  /\ op = "lookup" => ~response.raised
  /\ op = "lookup" /\ request[1] = 3 => response.value = Unknown
  /\ request \in {<<1, 5>>, <<7, 0>>} => response.value = Unknown

\* a function missing from a registered stream has been looked up
C4_Witness == request = <<7, 0>> /\ response.value = Unknown /\ 7 \in DOMAIN catalog

\* C5: every registered message type has toHost or toEquipment set.
C5_SomeDirection ==
  /\ \A p \in Registered : LET m == TypeAt(p) IN m.toHost \/ m.toEquipment
  /\ Found => response.value.toHost \/ response.value.toEquipment

\* lookup returned a message type with exactly one direction (S2F36)
C5_Witness ==
  /\ Found
  /\ request = <<2, 36>>
  /\ response.value.toHost # response.value.toEquipment

\* C6: for every registered message type isReplyRequired implies hasReply.
C6_ReplyRequiredHasReply ==
  /\ \A p \in Registered : LET m == TypeAt(p) IN m.isReplyRequired => m.hasReply
  /\ Found /\ response.value.isReplyRequired => response.value.hasReply

\* lookup returned a message type whose reply is required
C6_Witness == Found /\ response.value.isReplyRequired /\ response.value.hasReply

\* C7: every registered message type has a stream identity in 0..127 and a
\* function identity in 0..255.
C7_IdentityRange ==
  /\ \A p \in Registered : LET m == TypeAt(p) IN m.stream \in 0..127 /\ m.function \in 0..255
  /\ Found => response.value.stream \in 0..127 /\ response.value.function \in 0..255

\* lookup returned the message type of the highest registered stream
C7_Witness == Found /\ response.value.stream = 14 /\ response.value.function = 4

\* C8: registering a message type under a bound (stream, function) pair fails
\* with DuplicateRegistrationError and leaves the binding and the rest of the
\* catalog unchanged.
C8_DuplicateRejected ==
  [][(op' = "register" /\ request' \in Registered) =>
        /\ response'.raised
        /\ response'.value = DuplicateRegistrationError
        /\ catalog' = catalog]_vars

\* a pair bound by an earlier registration was registered again and kept its
\* first message type
C8_Witness ==
  /\ op = "register"
  /\ response.raised
  /\ request = <<7, 0>>
  /\ catalog[7][0] = SecsS07F00
  /\ Bound(catalog, 3, 1)

\* what a call gives when it runs alone on the descriptors of startup
Alone(call) ==
  IF ~Bound(secsStreamsFunctions, call.header[1], call.header[2])
    THEN Error("UnknownMessageError")
    ELSE LET d == secsStreamsFunctions[call.header[1]][call.header[2]].formatDescriptor
         IN IF call.kind = "encode" THEN build(d, call.value) ELSE parse(d, call.wire)

\* C9: no build, encode or decode step, successful or failed, changes the
\* catalog, a flag of a message type or a format descriptor.
C9_SchemaImmutable ==
  [][/\ catalog' = catalog
     /\ \A s \in DOMAIN catalog : \A f \in DOMAIN catalog[s] :
           catalog'[s][f].formatDescriptor = secsStreamsFunctions[s][f].formatDescriptor]_vars

\* a call for S1F2 failed in build and a later call for S1F2 went through on
\* the unchanged descriptor
C9_Witness ==
  /\ calls[1].pc = "failed" /\ calls[1].kind = "encode" /\ calls[1].header = <<1, 2>>
  /\ calls[2].pc = "done" /\ calls[2].kind = "encode" /\ calls[2].header = <<1, 2>>
  /\ catalog[1][2].formatDescriptor = SecsVarArray(SecsVarString(20))

\* C10: interleaved encode and decode calls for one message type each work
\* on their own tree: at every step a call holds, and in the end returns, what
\* it would when run alone.
C10_CallsIndependent ==
  \A c \in Calls :
    /\ calls[c].pc \in {"built", "parsed"} => trees[c] = Alone(calls[c])
    /\ calls[c].pc = "failed" => calls[c].result = Alone(calls[c])
    /\ calls[c].pc = "done" /\ calls[c].kind = "encode" =>
          calls[c].wire = encode(Alone(calls[c]))
    /\ calls[c].pc = "done" /\ calls[c].kind = "decode" =>
          calls[c].result = Alone(calls[c])

\* two calls for S2F15 with different values are in flight, one built while
\* the other was between build and encode
C10_Witness ==
  /\ calls[1].header = <<2, 15>> /\ calls[2].header = <<2, 15>>
  /\ calls[1].pc = "done" /\ calls[1].kind = "encode"
  /\ calls[2].pc = "built"
  /\ calls[1].value # calls[2].value
  /\ trees[1] # trees[2]

(***************************************************************************)
(* The item codec on the built-in message types.                           *)
(***************************************************************************)

\* the descriptor of the message type a call names
DescriptorOf(call) == TypeAt(call.header).formatDescriptor

ConstantValues ==
  {PyList(<<PyDict(ConstantFields)>>),
   PyList(<<Permuted(ConstantFields, <<2, 1>>)>>),
   PyList(<<PyList(<<PyInt(1), Text_text>>)>>)}

\* the call for {ECID: 1, ECV: "text"} gives a list of count 2 holding the
\* integer 1 as one element of the type and the ASCII item "text", and the
\* bytes decode to the tree of these two items
ConstantEncodedAs(type) ==
  LET call == calls[Caller]
      tree == [kind |-> "Array",
               value |-> <<[kind |-> "List",
                            value |-> << <<"ECID", Scalar(type, <<1>>)>>,
                                         <<"ECV", Scalar("SecsVarString", Text_text.v)>> >>]>>]
  IN call.header = <<2, 15>> /\ call.value \in ConstantValues =>
       /\ call.pc # "failed"
       /\ call.pc = "built" => trees[Caller] = tree
       /\ call.pc = "done" \/ call.kind = "roundtrip" =>
             call.wire = Header(FormatCode.List, 1)
                           \o Header(FormatCode.List, 2)
                           \o <<FormatCode[type] * 4 + 1, 1, 1>>
                           \o <<FormatCode.SecsVarString * 4 + 1, 4, 116, 101, 120, 116>>
       /\ call.kind = "roundtrip" /\ call.pc = "done" => call.result = tree

\* C12 as stated: encoding {ECID: 1, ECV: "text"} against the List (ECID,
\* ECV) gives a list of count 2 with a 1-byte unsigned integer 1 and the ASCII
\* item "text", and decoding the bytes gives an equal value.
C12_UnsignedByte == ConstantEncodedAs("SecsVarU1")

\* C12: encoding {ECID: 1, ECV: "text"} against the List (ECID, ECV) gives a
\* list of count 2 with a 1-byte signed integer 1 (I1) and the ASCII item
\* "text", and decoding the bytes gives an equal value.
C12_SignedByte == ConstantEncodedAs("SecsVarI1")

\* the element given by name, value first, was encoded, sent back and decoded
C12_Witness ==
  /\ calls[Caller].kind = "roundtrip"
  /\ calls[Caller].pc = "done"
  /\ calls[Caller].header = <<2, 15>>
  /\ calls[Caller].value = PyList(<<Permuted(ConstantFields, <<2, 1>>)>>)
  /\ calls[Caller].wire[5] = 101

\* the position of NULBC among the fields S12F1 declares
NulbcField ==
  CHOOSE i \in DOMAIN SecsS12F01.formatDescriptor.fields :
     SecsS12F01.formatDescriptor.fields[i][1] = "NULBC"

\* the bytes of the NULBC item in an encoded S12F1 whose NULBC has one
\* element of one byte: the item is followed by PRDCT (6 bytes) and PRAXI (3)
NulbcBytes(wire) == SubSeq(wire, Len(wire) - 11, Len(wire) - 9)

\* C13: the Dynamic Union of NULBC, whose whitelist is {ASCII, 1-byte
\* unsigned}, accepts 5 and encodes it as a 1-byte unsigned integer, accepts
\* "x" and encodes it as ASCII, and rejects 3.14 with UnsupportedTypeError.
C13_NulbcWhitelist ==
  LET call == calls[Caller]
  IN call.header = <<12, 1>> /\ call.kind = "encode" =>
       /\ call.value = MapSetup(PyInt(5)) =>
            /\ call.pc \in {"built", "done"}
            /\ trees[Caller].value[NulbcField] = <<"NULBC", Scalar("SecsVarU1", <<5>>)>>
            /\ call.pc = "done" =>
                  NulbcBytes(call.wire) = <<FormatCode.SecsVarU1 * 4 + 1, 1, 5>>
       /\ call.value = MapSetup(Text_x) =>
            /\ call.pc \in {"built", "done"}
            /\ trees[Caller].value[NulbcField] = <<"NULBC", Scalar("SecsVarString", <<120>>)>>
            /\ call.pc = "done" =>
                  NulbcBytes(call.wire) = <<FormatCode.SecsVarString * 4 + 1, 1, 120>>
       /\ call.value = MapSetup(Pi) =>
            /\ call.pc = "failed"
            /\ call.result = Error("UnsupportedTypeError")
            /\ trees[Caller] = NoTree

\* the S12F1 with NULBC = 3.14 was rejected
C13_Witness ==
  /\ calls[Caller].header = <<12, 1>>
  /\ calls[Caller].kind = "encode"
  /\ calls[Caller].value = MapSetup(Pi)
  /\ calls[Caller].pc = "failed"

RECURSIVE NarrowestIn(_, _)
\* every integer item that a Dynamic Union of the descriptor resolved has a
\* type no wider than any permitted integer type that can hold its value
NarrowestIn(d, t) ==
  CASE d.kind = "Array" -> \A i \in DOMAIN t.value : NarrowestIn(d.item, t.value[i])
    [] d.kind = "List" ->
         \A i \in DOMAIN t.value : NarrowestIn(d.fields[i][2], t.value[i][2])
    [] d.kind = "Dynamic" ->
         t.kind \in IntegerTypes =>
           \A type \in IntegerTypes :
              /\ d.types = <<>> \/ \E i \in DOMAIN d.types : d.types[i] = type
              /\ \A i \in DOMAIN t.value : InRange(type, t.value[i])
              => Width[t.kind] <= Width[type]
    [] OTHER -> TRUE

\* the bytes per element of the i-th child of a tree
WidthAt(t, i) ==
  IF t.kind = "List" THEN Width[t.value[i][2].kind] ELSE Width[t.value[i].kind]

Formats == DOMAIN FormatCode

\* the whitelist S14F2 declares for ATTRID (line 4137)
AttributeIdTypes ==
  {"SecsVarString", "SecsVarU1", "SecsVarU2", "SecsVarU4", "SecsVarU8"}

\* the call is a decode call that has parsed its bytes
Parsed(call) == call.kind = "decode" /\ call.pc \in {"parsed", "done"}

\* the call is a decode call that failed with the error
FailedWith(call, name) ==
  call.kind = "decode" /\ call.pc = "failed" /\ call.result = Error(name)

\* C15: on decode the empty whitelist of S6F20 and of ATTRDATA in S14F2
\* accepts an item of every recognised format and never fails with
\* UnsupportedTypeError, while the whitelist of ATTRID fails with
\* UnsupportedTypeError for every format outside it.
C15_WhitelistOnDecode ==
  LET call == calls[Caller]
  IN call.kind = "decode" /\ call.pc # "idle" =>
       /\ call.header = <<6, 20>> =>
            /\ ~FailedWith(call, "UnsupportedTypeError")
            /\ \A type \in Formats :
                  call.wire = Header(FormatCode.List, 1) \o ItemOf(type) => Parsed(call)
       /\ call.header = <<14, 2>> =>
            \A id, data \in Formats :
               call.wire = AttributeWire(id, data) =>
                  IF id \in AttributeIdTypes
                    THEN Parsed(call)
                    ELSE FailedWith(call, "UnsupportedTypeError")

\* an S14F2 whose ATTRID is binary, which the whitelist excludes, was refused
C15_Witness ==
  /\ calls[Caller].header = <<14, 2>>
  /\ calls[Caller].wire = AttributeWire("SecsVarBinary", "SecsVarF8")
  /\ FailedWith(calls[Caller], "UnsupportedTypeError")

\* the bytes of a value under a descriptor of its own
ItemBytes(d, v) == encode(build(d, v))

\* C16: a List built from named fields in any order, or from positional
\* fields, encodes its children in schema order: every permutation of the
\* S5F1 and of the S9F13 example gives the list header followed by the
\* fields as declared (ALCD, ALID, ALTX; MEXP, EDID).
C16_SchemaOrder ==
  LET call == calls[Caller]
  IN call.kind = "encode" =>
       /\ call.header = <<5, 1>> /\ call.value \in ExampleValues(<<5, 1>>) =>
            /\ call.pc \in {"built", "done"}
            /\ call.pc = "done" =>
                  call.wire = Header(FormatCode.List, 3)
                                \o ItemBytes(dataitems.ALCD, PyInt(129))
                                \o ItemBytes(dataitems.ALID, PyInt(100))
                                \o ItemBytes(dataitems.ALTX, Text_text)
       /\ call.header = <<9, 13>> /\ call.value \in ExampleValues(<<9, 13>>) =>
            /\ call.pc \in {"built", "done"}
            /\ call.pc = "done" =>
                  call.wire = Header(FormatCode.List, 2)
                                \o Ascii(Text_S01E01) \o Ascii(Text_data)

\* the S5F1 example given as ALTX, ALCD, ALID was encoded
C16_Witness ==
  /\ calls[Caller].kind = "encode"
  /\ calls[Caller].pc = "done"
  /\ calls[Caller].header = <<5, 1>>
  /\ calls[Caller].value = Permuted(AlarmFields, <<3, 1, 2>>)
  /\ calls[Caller].wire[5] = 129

\* the value is a sequence or a mapping whose number of fields is not the
\* arity of the List
OtherCount(d, v) == v.py \in {"list", "dict"} /\ Len(v.v) # d.count

\* the same, leaving out the mappings that name fields of the List only
\* and omit none but Arrays
Unfit(d, v) ==
  \/ v.py = "list" /\ Len(v.v) # d.count
  \/ /\ v.py = "dict"
     /\ \/ \E j \in DOMAIN v.v : \A i \in DOMAIN d.fields : v.v[j][1] # d.fields[i][1]
        \/ \E i \in DOMAIN d.fields :
              /\ d.fields[i][2].kind # "Array"
              /\ \A j \in DOMAIN v.v : v.v[j][1] # d.fields[i][1]

\* the List of the message, or of the elements of the message, has a value
\* that the test marks
SomeList(d, v, Test(_, _)) ==
  \/ d.kind = "List" /\ Test(d, v)
  \/ /\ d.kind = "Array" /\ d.item.kind = "List" /\ v.py = "list"
     /\ \E i \in DOMAIN v.v : Test(d.item, v.v[i])

\* an element of the value fails the element schema of the Array
BadElement(d, v) ==
  /\ d.kind = "Array" /\ v.py = "list"
  /\ \E i \in DOMAIN v.v : IsError(build(d.item, v.v[i]))

RECURSIVE Complete(_, _)
\* every List of the tree has the fields of its schema, every Array only
\* complete elements
Complete(d, t) ==
  CASE d.kind = "Array" ->
         t.kind = "Array" /\ \A i \in DOMAIN t.value : Complete(d.item, t.value[i])
    [] d.kind = "List" ->
         /\ t.kind = "List"
         /\ Len(t.value) = d.count
         /\ \A i \in DOMAIN d.fields :
               /\ t.value[i][1] = d.fields[i][1]
               /\ Complete(d.fields[i][2], t.value[i][2])
    [] OTHER -> t.kind \notin {"Error", "NoTree"}

\* the build of the call failed and left no tree
Refused(call) ==
  /\ call.pc = "failed"
  /\ IsError(call.result)
  /\ trees[Caller] = NoTree

TextList(n) ==
  Header(FormatCode.List, n) \o Flatten([i \in 1..n |-> Ascii(ConversationTexts[i])])

\* C18: decoding a List fails with StructureError when the element count on
\* the wire differs from the arity of the schema; when the counts agree,
\* exactly that many children are decoded, in schema order.  For S9F13 a
\* list of 0, 1 or 3 texts is refused and a list of 2 texts gives MEXP, EDID.
C18_WireCount ==
  LET call == calls[Caller]
      d == DescriptorOf(call)
      h == ReadHeader(call.wire)
  IN call.kind = "decode" /\ call.pc # "idle" /\ Bound(catalog, call.header[1], call.header[2]) =>
       /\ d.kind = "List" /\ h.ok /\ h.code = FormatCode.List /\ h.length # d.count =>
             FailedWith(call, "StructureError")
       /\ d.kind = "List" /\ call.pc = "parsed" =>
             /\ h.length = d.count
             /\ Len(trees[Caller].value) = d.count
             /\ \A i \in DOMAIN d.fields : trees[Caller].value[i][1] = d.fields[i][1]
       /\ call.header = <<9, 13>> =>
             /\ \A n \in {0, 1, 3} : call.wire = TextList(n) => FailedWith(call, "StructureError")
             /\ call.wire = TextList(2) =>
                   /\ Parsed(call)
                   /\ call.pc = "parsed" =>
                         trees[Caller].value =
                            << <<"MEXP", Scalar("SecsVarString", Text_S01E01.v)>>,
                               <<"EDID", Scalar("SecsVarString", Text_data.v)>> >>

\* an S9F13 with three texts was refused
C18_Witness ==
  /\ calls[Caller].header = <<9, 13>>
  /\ calls[Caller].wire = TextList(3)
  /\ FailedWith(calls[Caller], "StructureError")

\* the Array without elements
EmptyArray == [kind |-> "Array", value |-> <<>>]

\* C19: the Array of S1F2 and S1F13 accepts zero elements, given as no value
\* or as an empty sequence, and encodes to a list item of count 0; decoding
\* that item gives an empty Array.
C19_EmptyArray ==
  LET call == calls[Caller]
  IN /\ call.header \in {<<1, 2>>, <<1, 13>>}
     /\ call.kind \in {"encode", "roundtrip"}
     /\ call.value \in {PyNone, PyList(<<>>)}
     => /\ call.pc # "failed"
        /\ call.pc \in {"built", "parsed"} => trees[Caller] = EmptyArray
        /\ call.pc = "done" \/ call.kind = "roundtrip" =>
              call.wire = <<FormatCode.List * 4 + 1, 0>>
        /\ call.kind = "roundtrip" /\ call.pc = "done" => call.result = EmptyArray

\* the S1F13 a host sends, made without a value, came back from the peer and
\* was decoded
C19_Witness ==
  /\ calls[Caller].header = <<1, 13>>
  /\ calls[Caller].kind = "roundtrip"
  /\ calls[Caller].pc = "done"
  /\ calls[Caller].value = PyNone
  /\ calls[Caller].result.value = <<>>

RECURSIVE SchemaDepth(_)
\* the depth of the schema tree of a descriptor
SchemaDepth(d) ==
  CASE d.kind = "Array" -> 1 + SchemaDepth(d.item)
    [] d.kind = "List" ->
         LET depths == {SchemaDepth(d.fields[i][2]) : i \in DOMAIN d.fields}
         IN 1 + (CHOOSE n \in depths : \A m \in depths : m <= n)
    [] OTHER -> 1

\* C20: decoding terminates and the nesting of its recursion is bounded by
\* the depth of the schema tree of the message type, for every byte sequence,
\* also when the schema has an empty-whitelist Dynamic Union that may
\* resolve to a nested list.
C20_DepthBounded ==
  LET call == calls[Caller]
  IN call.kind = "decode" /\ call.pc # "idle" /\ Bound(catalog, call.header[1], call.header[2]) =>
       decode(DescriptorOf(call), call.wire).depth <= SchemaDepth(DescriptorOf(call))

(***************************************************************************)
(* Catalog consistency: the declared classes against the dictionary.       *)
(***************************************************************************)

\* the message type classes the module declares, in the order of the class
\* statements
Declared ==
  <<
    SecsS00F00, SecsS01F00, SecsS01F01, SecsS01F02, SecsS01F03, SecsS01F04,
    SecsS01F11, SecsS01F12, SecsS01F13, SecsS01F14, SecsS01F15, SecsS01F16,
    SecsS01F17, SecsS01F18, SecsS02F00, SecsS02F13, SecsS02F14, SecsS02F15,
    SecsS02F16, SecsS02F17, SecsS02F18, SecsS02F29, SecsS02F30, SecsS02F33,
    SecsS02F34, SecsS02F35, SecsS02F36, SecsS02F37, SecsS02F38, SecsS02F41,
    SecsS02F42, SecsS05F00, SecsS05F01, SecsS05F02, SecsS06F00, SecsS06F05,
    SecsS06F06, SecsS06F07, SecsS06F08, SecsS06F11, SecsS06F12, SecsS06F15,
    SecsS06F16, SecsS06F19, SecsS06F20, SecsS06F21, SecsS06F22, SecsS07F00,
    SecsS07F01, SecsS07F02, SecsS07F03, SecsS07F04, SecsS07F05, SecsS07F06,
    SecsS07F17, SecsS07F18, SecsS07F19, SecsS07F20, SecsS09F00, SecsS09F01,
    SecsS09F03, SecsS09F05, SecsS09F07, SecsS09F09, SecsS09F11, SecsS09F13,
    SecsS10F00, SecsS10F01, SecsS10F02, SecsS10F03, SecsS10F04, SecsS12F00,
    SecsS12F01, SecsS12F02, SecsS12F03, SecsS12F04, SecsS12F05, SecsS12F06,
    SecsS12F07, SecsS12F08, SecsS12F09, SecsS12F10, SecsS12F11, SecsS12F12,
    SecsS12F13, SecsS12F14, SecsS12F15, SecsS12F16, SecsS12F17, SecsS12F18,
    SecsS12F19, SecsS14F00, SecsS14F01, SecsS14F02, SecsS14F03, SecsS14F04
  >>

\* the message type bound to the pair, when the pair is bound
IsBoundTo(s, f, m) == Bound(catalog, s, f) /\ catalog[s][f] = m

\* C21: the body of S6F7 is a DATAID item that accepts an ASCII, signed or
\* unsigned integer value (A/I*/U*), as the structure in its docstring states.
C21_DataIdBody ==
  /\ Bound(catalog, 6, 7)
  /\ catalog[6][7].formatDescriptor = dataitems.DATAID
  /\ Found /\ request = <<6, 7>> => response.value.formatDescriptor = dataitems.DATAID

\* C22: for every entry of the catalog, the message type stored under the
\* key (s, f) declares _stream = s and _function = f.
C22_KeyIsIdentity ==
  /\ \A p \in Registered : TypeAt(p).stream = p[1] /\ TypeAt(p).function = p[2]
  /\ Found => response.value.stream = request[1] /\ response.value.function = request[2]

\* lookup of (12, 19) returned the type that declares stream 12, function 19
C22_Witness ==
  /\ Found
  /\ request = <<12, 19>>
  /\ response.value.name = "SecsS12F19"
  /\ response.value.function = 19

\* C23: every message type the module declares is registered in the catalog:
\* for each declared (stream, function) identity, lookup returns that message
\* type and not the unknown marker.
C23_DeclaredIsRegistered ==
  /\ \A i \in DOMAIN Declared :
        lookup(catalog, Declared[i].stream, Declared[i].function).value = Declared[i]
  /\ op = "lookup" =>
        \A i \in DOMAIN Declared :
           request = <<Declared[i].stream, Declared[i].function>> =>
              response.value = Declared[i]

\* C24: every stream that has a registered function has function 0, the
\* abort transaction, registered too.
C24_StreamHasAbort ==
  \A s \in DOMAIN catalog : catalog[s] # <<>> => 0 \in DOMAIN catalog[s]

\* the registered message types that expect a reply
Primaries == {p \in Registered : TypeAt(p).hasReply}

\* C25: every registered message type with hasReply = true has an odd
\* function number f, and its reply (same stream, function f + 1) is
\* registered in the catalog.
C25_PrimaryOddWithReply ==
  /\ \A p \in Primaries : p[2] % 2 = 1 /\ Bound(catalog, p[1], p[2] + 1)
  /\ Found /\ response.value.hasReply =>
        /\ request[2] % 2 = 1
        /\ lookup(catalog, request[1], request[2] + 1).value # Unknown

\* lookup of (6, 5) returned a primary whose reply S6F6 is registered
C25_Witness ==
  /\ Found
  /\ request = <<6, 5>>
  /\ response.value.hasReply
  /\ IsBoundTo(6, 6, SecsS06F06)

\* the reply of a registered primary: same stream, next function
ReplyOf(p) == lookup(catalog, p[1], p[2] + 1).value

\* C26: for every registered primary with hasReply = true, its registered
\* reply (function + 1) travels in the opposite direction: the reply goes to
\* the host exactly when the primary goes to the equipment, and to the
\* equipment exactly when the primary goes to the host.
C26_ReplyOpposite ==
  \A p \in Primaries :
     ReplyOf(p) # Unknown =>
        /\ ReplyOf(p).toHost = TypeAt(p).toEquipment
        /\ ReplyOf(p).toEquipment = TypeAt(p).toHost

\* the registered message types with an even function number
Secondaries == {p \in Registered : p[2] % 2 = 0}

\* C27: every registered message type with an even function number has
\* hasReply = false and isReplyRequired = false, and every registered even
\* non-zero function f is the reply of a registered primary (same stream,
\* function f - 1) that has hasReply = true.
C27_EvenIsReply ==
  /\ \A p \in Secondaries :
        /\ ~TypeAt(p).hasReply
        /\ ~TypeAt(p).isReplyRequired
        /\ p[2] # 0 =>
              /\ Bound(catalog, p[1], p[2] - 1)
              /\ catalog[p[1]][p[2] - 1].hasReply
  /\ Found /\ request[2] % 2 = 0 =>
        /\ ~response.value.hasReply
        /\ ~response.value.isReplyRequired
        /\ request[2] # 0 =>
              lookup(catalog, request[1], request[2] - 1).value.hasReply

\* lookup of (6, 16) returned a reply that expects none, and its primary
\* S6F15 is registered and expects a reply
C27_Witness ==
  /\ Found
  /\ request = <<6, 16>>
  /\ ~response.value.hasReply
  /\ IsBoundTo(6, 15, SecsS06F15)
  /\ SecsS06F15.hasReply

RECURSIVE ArityMatches(_)
\* at every nesting depth of the descriptor, the arity declared for a List
\* is the number of its distinct named fields
ArityMatches(d) ==
  CASE d.kind = "Array" -> ArityMatches(d.item)
    [] d.kind = "List" ->
         /\ d.count = Cardinality({d.fields[i][1] : i \in DOMAIN d.fields})
         /\ \A i \in DOMAIN d.fields : ArityMatches(d.fields[i][2])
    [] OTHER -> TRUE

\* C28: in every format descriptor, at every nesting depth, the arity
\* declared for a List, the integer argument of SecsVarList, equals the
\* number of distinct named fields of that List.
C28_ListArity ==
  /\ \A i \in DOMAIN Declared : ArityMatches(Declared[i].formatDescriptor)
  /\ \A p \in Registered : ArityMatches(TypeAt(p).formatDescriptor)
  /\ Found => ArityMatches(response.value.formatDescriptor)

\* lookup of (14, 1) returned a list of five fields whose FILTER field is an
\* array of lists of three fields
C28_Witness ==
  /\ Found
  /\ request = <<14, 1>>
  /\ response.value.formatDescriptor.count = 5
  /\ response.value.formatDescriptor.fields[4][1] = "FILTER"
  /\ response.value.formatDescriptor.fields[4][2].item.count = 3
  /\ Len(response.value.formatDescriptor.fields[4][2].item.fields) = 3

\* the message type is header-only, allowed in both directions, expects no
\* reply and is not multi-block
IsAbort(m) ==
  /\ m.formatDescriptor = None
  /\ m.toHost
  /\ m.toEquipment
  /\ ~m.hasReply
  /\ ~m.isReplyRequired
  /\ ~m.isMultiBlock

\* C29: every function-0 message type, the abort transaction of its stream,
\* is header-only (no format descriptor), allowed in both directions, expects
\* no reply and is not multi-block.
C29_AbortShape ==
  /\ \A i \in DOMAIN Declared : Declared[i].function = 0 => IsAbort(Declared[i])
  /\ \A p \in Registered : p[2] = 0 => IsAbort(TypeAt(p))
  /\ Found /\ request[2] = 0 => IsAbort(response.value)

\* lookup of (12, 0) returned the abort transaction of stream 12
C29_Witness ==
  /\ Found
  /\ request = <<12, 0>>
  /\ response.value = SecsS12F00
  /\ response.value.formatDescriptor = None

====
